---- MODULE Spec2Model ----
(***************************************************************************)
(* Model of MissionFeasibilityChecker                                      *)
(* (src/modules/navigator/mission_feasibility_checker.cpp).                *)
(*                                                                         *)
(* One checker object is called repeatedly.  A call is modelled as the     *)
(* sequence of steps of checkMissionFeasible: the entry (warning reset and *)
(* empty-mission return), the home-altitude branch, the reset of           *)
(* _has_takeoff/_has_landing, then one step per sub-check, and the return. *)
(* Every sub-check is an operator that walks the mission exactly as the    *)
(* loop in the source does and yields what the sub-check returns, the      *)
(* events it sends, whether it sets the warning flag and how many storage  *)
(* reads it performs.                                                      *)
(*                                                                         *)
(* Lengths (altitude, distance, radius) are integers in centimetres.  All  *)
(* positions lie on one meridian, so a position is its northing `lat` in   *)
(* centimetres and the great-circle distance of two positions is the       *)
(* absolute difference of their northings.                                 *)
(***************************************************************************)
EXTENDS Integers, Sequences, FiniteSets, TLC

VARIABLES
    pc,            \* position inside checkMissionFeasible, "idle" between calls
    in,            \* the inputs of the call in progress
    has_takeoff,   \* MissionFeasibilityChecker::_has_takeoff
    has_landing,   \* MissionFeasibilityChecker::_has_landing
    warning,       \* _navigator->get_mission_result()->warning
    failed,        \* the local `failed` of checkMissionFeasible
    events,        \* events sent to the sink during the call, in order
    ran,           \* the sub-checks executed by the call, in order, with results
    ret,           \* the value returned by the call ("none" while running)
    entry,         \* history: <<_has_takeoff, _has_landing, warning>> on entry
    ref            \* history: <<>>, or the inputs and outputs of one earlier call

vars == <<pc, in, has_takeoff, has_landing, warning, failed, events, ran, ret,
          entry, ref>>

----------------------------------------------------------------------------
(* Navigation commands.  The names are those of the NAV_CMD_* enumerators. *)

\* the commands accepted by checkMissionItemValidity
SupportedCmds ==
    { "IDLE", "WAYPOINT", "LOITER_UNLIMITED", "LOITER_TIME_LIMIT",
      "RETURN_TO_LAUNCH", "LAND", "TAKEOFF", "LOITER_TO_ALT", "VTOL_TAKEOFF",
      "VTOL_LAND", "DELAY", "CONDITION_GATE", "DO_WINCH", "DO_GRIPPER",
      "DO_JUMP", "DO_CHANGE_SPEED", "DO_SET_HOME", "DO_SET_SERVO",
      "DO_SET_ACTUATOR", "DO_LAND_START", "DO_TRIGGER_CONTROL",
      "DO_DIGICAM_CONTROL", "IMAGE_START_CAPTURE", "IMAGE_STOP_CAPTURE",
      "VIDEO_START_CAPTURE", "VIDEO_STOP_CAPTURE", "DO_CONTROL_VIDEO",
      "DO_MOUNT_CONFIGURE", "DO_MOUNT_CONTROL", "DO_GIMBAL_MANAGER_PITCHYAW",
      "DO_GIMBAL_MANAGER_CONFIGURE", "DO_SET_ROI", "DO_SET_ROI_LOCATION",
      "DO_SET_ROI_WPNEXT_OFFSET", "DO_SET_ROI_NONE", "DO_SET_CAM_TRIGG_DIST",
      "OBLIQUE_SURVEY", "DO_SET_CAM_TRIGG_INTERVAL", "SET_CAMERA_MODE",
      "SET_CAMERA_ZOOM", "SET_CAMERA_FOCUS", "DO_VTOL_TRANSITION" }

\* the commands checkTakeoff accepts in front of the first takeoff item
AllowedBeforeTakeoff ==
    { "IDLE", "DELAY", "DO_JUMP", "DO_CHANGE_SPEED", "DO_SET_HOME",
      "DO_SET_SERVO", "DO_LAND_START", "DO_TRIGGER_CONTROL",
      "DO_DIGICAM_CONTROL", "IMAGE_START_CAPTURE", "IMAGE_STOP_CAPTURE",
      "VIDEO_START_CAPTURE", "VIDEO_STOP_CAPTURE", "DO_CONTROL_VIDEO",
      "DO_MOUNT_CONFIGURE", "DO_MOUNT_CONTROL", "DO_GIMBAL_MANAGER_PITCHYAW",
      "DO_GIMBAL_MANAGER_CONFIGURE", "DO_SET_ROI", "DO_SET_ROI_LOCATION",
      "DO_SET_ROI_WPNEXT_OFFSET", "DO_SET_ROI_NONE", "DO_SET_CAM_TRIGG_DIST",
      "OBLIQUE_SURVEY", "DO_SET_CAM_TRIGG_INTERVAL", "SET_CAMERA_MODE",
      "SET_CAMERA_ZOOM", "SET_CAMERA_FOCUS", "DO_VTOL_TRANSITION" }

\* MissionBlock::item_contains_position: the positional-navigation commands
PositionalCmds ==
    { "WAYPOINT", "LOITER_UNLIMITED", "LOITER_TIME_LIMIT", "LOITER_TO_ALT",
      "TAKEOFF", "VTOL_TAKEOFF", "LAND", "VTOL_LAND", "RETURN_TO_LAUNCH" }

item_contains_position(item) == item.nav_cmd \in PositionalCmds

----------------------------------------------------------------------------
(* Platform constants and collaborators.                                   *)

\* PWM_DEFAULT_MAX, the actuator range bound of checkMissionItemValidity
PWM_DEFAULT_MAX == 2000

\* NAV_EPSILON_POSITION, 0.001 m: on the centimetre grid a radius exceeds it
\* exactly when it exceeds 0
NAV_EPSILON_POSITION == 0

\* the 1.0f of `takeoff_alt - 1.0f < acceptance_radius`, 1 m
TakeoffMargin == 100

\* the 0.05f of the gate/waypoint coincidence rule, 5 cm
GateMinDist == 5

\* metres of a length given in centimetres, as the (uint32_t) casts of the
\* event arguments truncate it
Metres(cm) == cm \div 100

Abs(x) == IF x < 0 THEN -x ELSE x

\* get_distance_to_next_waypoint for two positions on one meridian
get_distance_to_next_waypoint(lat_now, lat_next) == Abs(lat_next - lat_now)

\* dm_read: the read of item i at read site `site` succeeds unless the storage
\* fails there.  Items are numbered from 0 as in the source.
dm_read(inp, site, i) == <<site, i>> \notin inp.dm_fail

Item(inp, i) == inp.mission[i + 1]

Count(inp) == Len(inp.mission)

\* an event record: the id string of events::send and its arguments
Ev(id, args) == [id |-> id, args |-> args]

\* what a sub-check yields: its return value, the events it sent, whether it
\* set the warning flag, and the number of dm_read calls it made
Res(ok, ev, warn, reads) == [ok |-> ok, ev |-> ev, warn |-> warn, reads |-> reads]

----------------------------------------------------------------------------
(* checkDistanceToFirstWaypoint                                            *)

\* FirstWaypointLoop that lets an item exactly at the limit pass
RECURSIVE FirstWaypointLoopAtLimit(_, _)
FirstWaypointLoopAtLimit(inp, i) ==
    IF i >= Count(inp) THEN Res(TRUE, <<>>, FALSE, i)
    ELSE IF ~dm_read(inp, "first", i)
    THEN Res(FALSE, <<Ev("navigator_mis_storage_failure", <<>>)>>, FALSE, i + 1)
    ELSE IF ~item_contains_position(Item(inp, i))
    THEN FirstWaypointLoopAtLimit(inp, i + 1)
    ELSE LET dist_to_1wp ==
                 get_distance_to_next_waypoint(Item(inp, i).lat, inp.home.lat)
         IN  IF dist_to_1wp <= inp.max_distance_to_1st_waypoint
             THEN Res(TRUE, <<>>, FALSE, i + 1)
             ELSE Res(FALSE,
                      <<Ev("navigator_mis_first_wp_too_far",
                           <<Metres(dist_to_1wp),
                             Metres(inp.max_distance_to_1st_waypoint)>>)>>,
                      TRUE, i + 1)

\* FirstWaypointLoop without the `continue` for items that hold no position
RECURSIVE FirstWaypointLoopNoSkip(_, _)
FirstWaypointLoopNoSkip(inp, i) ==
    IF i >= Count(inp) THEN Res(TRUE, <<>>, FALSE, i)
    ELSE IF ~dm_read(inp, "first", i)
    THEN Res(FALSE, <<Ev("navigator_mis_storage_failure", <<>>)>>, FALSE, i + 1)
    ELSE LET dist_to_1wp ==
                 get_distance_to_next_waypoint(Item(inp, i).lat, inp.home.lat)
         IN  IF dist_to_1wp < inp.max_distance_to_1st_waypoint
             THEN Res(TRUE, <<>>, FALSE, i + 1)
             ELSE Res(FALSE,
                      <<Ev("navigator_mis_first_wp_too_far",
                           <<Metres(dist_to_1wp),
                             Metres(inp.max_distance_to_1st_waypoint)>>)>>,
                      TRUE, i + 1)

RECURSIVE FirstWaypointLoop(_, _)
FirstWaypointLoop(inp, i) ==
    IF i >= Count(inp) THEN Res(TRUE, <<>>, FALSE, i)
    ELSE IF ~dm_read(inp, "first", i)
    THEN Res(FALSE, <<Ev("navigator_mis_storage_failure", <<>>)>>, FALSE, i + 1)
    ELSE IF ~item_contains_position(Item(inp, i))
    THEN FirstWaypointLoop(inp, i + 1)
    ELSE LET dist_to_1wp ==
                 get_distance_to_next_waypoint(Item(inp, i).lat, inp.home.lat)
         IN  IF dist_to_1wp < inp.max_distance_to_1st_waypoint
             THEN Res(TRUE, <<>>, FALSE, i + 1)
             ELSE Res(FALSE,
                      <<Ev("navigator_mis_first_wp_too_far",
                           <<Metres(dist_to_1wp),
                             Metres(inp.max_distance_to_1st_waypoint)>>)>>,
                      TRUE, i + 1)

checkDistanceToFirstWaypoint(inp) ==
    IF inp.max_distance_to_1st_waypoint <= 0
    THEN Res(TRUE, <<>>, FALSE, 0)
    ELSE FirstWaypointLoop(inp, 0)

----------------------------------------------------------------------------
(* checkDistancesBetweenWaypoints                                          *)
(* `last` is <<>> while last_lat/last_lon are NAN, else <<lat, cmd>>.      *)

\* BetweenLoop that forgets the last position at an item that holds none
RECURSIVE BetweenLoopAdjacentOnly(_, _, _)
BetweenLoopAdjacentOnly(inp, i, last) ==
    IF i >= Count(inp) THEN Res(TRUE, <<>>, FALSE, i)
    ELSE IF ~dm_read(inp, "between", i)
    THEN Res(FALSE, <<Ev("navigator_mis_storage_failure2", <<>>)>>, FALSE, i + 1)
    ELSE IF ~item_contains_position(Item(inp, i))
    THEN BetweenLoopAdjacentOnly(inp, i + 1, <<>>)
    ELSE LET item == Item(inp, i)
             dist == IF last = <<>> THEN 0
                     ELSE get_distance_to_next_waypoint(item.lat, last[1])
         IN  IF last # <<>> /\ dist > inp.max_distance_between_waypoints
             THEN Res(FALSE,
                      <<Ev("navigator_mis_wp_dist_too_far",
                           <<Metres(dist),
                             Metres(inp.max_distance_between_waypoints)>>)>>,
                      TRUE, i + 1)
             ELSE IF /\ last # <<>>
                     /\ dist < GateMinDist
                     /\ (item.nav_cmd = "CONDITION_GATE"
                            \/ last[2] = "CONDITION_GATE")
             THEN Res(FALSE,
                      <<Ev("navigator_mis_wp_gate_too_close",
                           <<dist, GateMinDist>>)>>,
                      TRUE, i + 1)
             ELSE BetweenLoopAdjacentOnly(inp, i + 1, <<item.lat, item.nav_cmd>>)

RECURSIVE BetweenLoop(_, _, _)
BetweenLoop(inp, i, last) ==
    IF i >= Count(inp) THEN Res(TRUE, <<>>, FALSE, i)
    ELSE IF ~dm_read(inp, "between", i)
    THEN Res(FALSE, <<Ev("navigator_mis_storage_failure2", <<>>)>>, FALSE, i + 1)
    ELSE IF ~item_contains_position(Item(inp, i))
    THEN BetweenLoop(inp, i + 1, last)
    ELSE LET item == Item(inp, i)
             dist == IF last = <<>> THEN 0
                     ELSE get_distance_to_next_waypoint(item.lat, last[1])
         IN  IF last # <<>> /\ dist > inp.max_distance_between_waypoints
             THEN Res(FALSE,
                      <<Ev("navigator_mis_wp_dist_too_far",
                           <<Metres(dist),
                             Metres(inp.max_distance_between_waypoints)>>)>>,
                      TRUE, i + 1)
             ELSE IF /\ last # <<>>
                     /\ dist < GateMinDist
                     /\ (item.nav_cmd = "CONDITION_GATE"
                            \/ last[2] = "CONDITION_GATE")
             THEN Res(FALSE,
                      <<Ev("navigator_mis_wp_gate_too_close",
                           <<dist, GateMinDist>>)>>,
                      TRUE, i + 1)
             ELSE BetweenLoop(inp, i + 1, <<item.lat, item.nav_cmd>>)

\* checkDistancesBetweenWaypoints that takes only a negative limit as unset
checkDistancesBetweenWaypointsStrict(inp) ==
    IF inp.max_distance_between_waypoints < 0
    THEN Res(TRUE, <<>>, FALSE, 0)
    ELSE BetweenLoop(inp, 0, <<>>)

checkDistancesBetweenWaypoints(inp) ==
    IF inp.max_distance_between_waypoints <= 0
    THEN Res(TRUE, <<>>, FALSE, 0)
    ELSE BetweenLoop(inp, 0, <<>>)

----------------------------------------------------------------------------
(* checkMissionItemValidity                                                *)
(* item.params is the tuple <<params[0], params[1]>> of the source.        *)

RECURSIVE ItemValidityLoop(_, _)
ItemValidityLoop(inp, i) ==
    IF i >= Count(inp) THEN Res(TRUE, <<>>, FALSE, i)
    ELSE IF ~dm_read(inp, "validity", i)
    THEN Res(FALSE, <<Ev("navigator_mis_sd_failure", <<>>)>>, FALSE, i + 1)
    ELSE LET item == Item(inp, i) IN
         IF item.nav_cmd \notin SupportedCmds
         THEN Res(FALSE,
                  <<Ev("navigator_mis_unsup_cmd", <<i + 1>>)>>,
                  FALSE, i + 1)
         ELSE IF /\ item.nav_cmd = "DO_SET_SERVO"
                 /\ (item.params[1] < 0 \/ item.params[1] > 5)
         THEN Res(FALSE,
                  <<Ev("navigator_mis_act_index", <<item.params[1]>>)>>,
                  FALSE, i + 1)
         ELSE IF /\ item.nav_cmd = "DO_SET_SERVO"
                 /\ (item.params[2] < -PWM_DEFAULT_MAX
                        \/ item.params[2] > PWM_DEFAULT_MAX)
         THEN Res(FALSE,
                  <<Ev("navigator_mis_act_range",
                       <<item.params[2], PWM_DEFAULT_MAX>>)>>,
                  FALSE, i + 1)
         ELSE IF i = 0 /\ item.nav_cmd = "LAND" /\ inp.landed
         THEN Res(FALSE, <<Ev("navigator_mis_starts_w_landing", <<>>)>>,
                  FALSE, i + 1)
         ELSE ItemValidityLoop(inp, i + 1)

checkMissionItemValidity(inp) == ItemValidityLoop(inp, 0)

----------------------------------------------------------------------------
(* checkGeofence                                                           *)

\* the altitude above mean sea level of an item, given the home altitude
AltAmsl(item, home_alt) ==
    IF item.altitude_is_relative THEN item.altitude + home_alt
    ELSE item.altitude

\* Geofence::check on an item whose altitude is AMSL: the fence is a box
\* around the reference point, up to a ceiling
GeofenceCheck(fence, lat, alt_amsl) ==
    Abs(lat) <= fence.max_lat /\ alt_amsl <= fence.max_alt

RECURSIVE GeofenceLoop(_, _)
GeofenceLoop(inp, i) ==
    IF i >= Count(inp) THEN Res(TRUE, <<>>, FALSE, i)
    ELSE IF ~dm_read(inp, "geofence", i) THEN Res(FALSE, <<>>, FALSE, i + 1)
    ELSE LET item == Item(inp, i) IN
         IF item.altitude_is_relative /\ ~inp.home_valid
         THEN Res(FALSE, <<Ev("navigator_mis_geofence_no_home2", <<>>)>>,
                  FALSE, i + 1)
         ELSE IF /\ item_contains_position(item)
                 /\ ~GeofenceCheck(inp.geofence, item.lat,
                                   AltAmsl(item, inp.home.alt))
         THEN Res(FALSE,
                  <<Ev("navigator_mis_geofence_violation", <<i + 1>>)>>,
                  FALSE, i + 1)
         ELSE GeofenceLoop(inp, i + 1)

\* checkGeofence that looks at valid() before anything else
checkGeofenceValidFirst(inp) ==
    IF ~inp.geofence.valid THEN Res(TRUE, <<>>, FALSE, 0)
    ELSE IF inp.geofence.home_required /\ ~inp.home_valid
    THEN Res(FALSE, <<Ev("navigator_mis_geofence_no_home", <<>>)>>, FALSE, 0)
    ELSE GeofenceLoop(inp, 0)

checkGeofence(inp) ==
    IF inp.geofence.home_required /\ ~inp.home_valid
    THEN Res(FALSE, <<Ev("navigator_mis_geofence_no_home", <<>>)>>, FALSE, 0)
    ELSE IF inp.geofence.valid THEN GeofenceLoop(inp, 0)
    ELSE Res(TRUE, <<>>, FALSE, 0)

----------------------------------------------------------------------------
(* checkHomePositionAltitude                                               *)
(* `ev` and `warn` are what the loop has sent and set so far.              *)

\* HomeAltLoop that ends the scan at the first waypoint below home
RECURSIVE HomeAltLoopFirstOnly(_, _, _, _)
HomeAltLoopFirstOnly(inp, i, ev, warn) ==
    IF i >= Count(inp) THEN Res(TRUE, ev, warn, i)
    ELSE IF ~dm_read(inp, "homealt", i) THEN Res(FALSE, ev, TRUE, i + 1)
    ELSE LET item == Item(inp, i) IN
         IF /\ item.altitude_is_relative
            /\ ~inp.home_alt_valid
            /\ item_contains_position(item)
         THEN Res(FALSE,
                  Append(ev, Ev("navigator_mis_no_home_rel_alt", <<i + 1>>)),
                  TRUE, i + 1)
         ELSE IF /\ inp.home_alt_valid
                 /\ inp.home.alt > AltAmsl(item, inp.home.alt)
                 /\ item_contains_position(item)
         THEN Res(TRUE,
                  Append(ev, Ev("navigator_mis_wp_below_home", <<i + 1>>)),
                  TRUE, i + 1)
         ELSE HomeAltLoopFirstOnly(inp, i + 1, ev, warn)

\* HomeAltLoop that leaves the warning flag alone at a waypoint below home
RECURSIVE HomeAltLoopNoWarning(_, _, _, _)
HomeAltLoopNoWarning(inp, i, ev, warn) ==
    IF i >= Count(inp) THEN Res(TRUE, ev, warn, i)
    ELSE IF ~dm_read(inp, "homealt", i) THEN Res(FALSE, ev, TRUE, i + 1)
    ELSE LET item == Item(inp, i) IN
         IF /\ item.altitude_is_relative
            /\ ~inp.home_alt_valid
            /\ item_contains_position(item)
         THEN Res(FALSE,
                  Append(ev, Ev("navigator_mis_no_home_rel_alt", <<i + 1>>)),
                  TRUE, i + 1)
         ELSE IF /\ inp.home_alt_valid
                 /\ inp.home.alt > AltAmsl(item, inp.home.alt)
                 /\ item_contains_position(item)
         THEN HomeAltLoopNoWarning(
                  inp, i + 1,
                  Append(ev, Ev("navigator_mis_wp_below_home", <<i + 1>>)),
                  warn)
         ELSE HomeAltLoopNoWarning(inp, i + 1, ev, warn)

RECURSIVE HomeAltLoop(_, _, _, _)
HomeAltLoop(inp, i, ev, warn) ==
    IF i >= Count(inp) THEN Res(TRUE, ev, warn, i)
    ELSE IF ~dm_read(inp, "homealt", i) THEN Res(FALSE, ev, TRUE, i + 1)
    ELSE LET item == Item(inp, i) IN
         IF /\ item.altitude_is_relative
            /\ ~inp.home_alt_valid
            /\ item_contains_position(item)
         THEN Res(FALSE,
                  Append(ev, Ev("navigator_mis_no_home_rel_alt", <<i + 1>>)),
                  TRUE, i + 1)
         ELSE IF /\ inp.home_alt_valid
                 /\ inp.home.alt > AltAmsl(item, inp.home.alt)
                 /\ item_contains_position(item)
         THEN HomeAltLoop(inp, i + 1,
                          Append(ev, Ev("navigator_mis_wp_below_home", <<i + 1>>)),
                          TRUE)
         ELSE HomeAltLoop(inp, i + 1, ev, warn)

checkHomePositionAltitude(inp) == HomeAltLoop(inp, 0, <<>>, FALSE)

----------------------------------------------------------------------------
(* checkTakeoff                                                            *)
(* A result carries has_takeoff, the value of _has_takeoff on return.      *)

ResT(ok, ev, reads, ht) ==
    [ok |-> ok, ev |-> ev, warn |-> FALSE, reads |-> reads, has_takeoff |-> ht]

\* the body of the second loop: the assignment to takeoff_first
AllowedBefore(nav_cmd) == nav_cmd \in AllowedBeforeTakeoff

\* the second loop (lines 347-385): ends with the last value assigned
RECURSIVE TakeoffPreLoop(_, _, _, _)
TakeoffPreLoop(inp, i, takeoff_index, takeoff_first) ==
    IF i >= takeoff_index THEN [read_ok |-> TRUE, first |-> takeoff_first, reads |-> i]
    ELSE IF ~dm_read(inp, "takeoff_pre", i)
    THEN [read_ok |-> FALSE, first |-> takeoff_first, reads |-> i + 1]
    ELSE TakeoffPreLoop(inp, i + 1, takeoff_index,
                        AllowedBefore(Item(inp, i).nav_cmd))

\* lines 342-398: what follows the first loop
TakeoffTail(inp, reads, ht, takeoff_first, takeoff_index) ==
    LET pre == IF takeoff_index # -1
               THEN TakeoffPreLoop(inp, 0, takeoff_index, takeoff_first)
               ELSE [read_ok |-> TRUE, first |-> takeoff_first, reads |-> 0]
    IN  IF ~pre.read_ok THEN ResT(FALSE, <<>>, reads + pre.reads, ht)
        ELSE IF ht /\ ~pre.first
        THEN ResT(FALSE, <<Ev("navigator_mis_takeoff_not_first", <<>>)>>,
                  reads + pre.reads, ht)
        ELSE ResT(TRUE, <<>>, reads + pre.reads, ht)

\* TakeoffLoop that also rejects a takeoff exactly one metre above the radius
RECURSIVE TakeoffLoopStrict(_, _, _, _, _)
TakeoffLoopStrict(inp, i, ht, takeoff_first, takeoff_index) ==
    IF i >= Count(inp) THEN TakeoffTail(inp, i, ht, takeoff_first, takeoff_index)
    ELSE IF ~dm_read(inp, "takeoff", i) THEN ResT(FALSE, <<>>, i + 1, ht)
    ELSE LET item == Item(inp, i) IN
         IF item.nav_cmd \notin {"TAKEOFF", "VTOL_TAKEOFF"}
         THEN TakeoffLoopStrict(inp, i + 1, ht, takeoff_first, takeoff_index)
         ELSE LET takeoff_alt == IF item.altitude_is_relative
                                 THEN item.altitude
                                 ELSE item.altitude - inp.home.alt
                  acceptance_radius ==
                      IF item.acceptance_radius > NAV_EPSILON_POSITION
                      THEN item.acceptance_radius
                      ELSE inp.default_acceptance_radius
              IN  IF takeoff_alt - TakeoffMargin <= acceptance_radius
                  THEN ResT(FALSE,
                            <<Ev("navigator_mis_takeoff_too_low",
                                 <<acceptance_radius + TakeoffMargin>>)>>,
                            i + 1, ht)
                  ELSE TakeoffLoopStrict(inp, i + 1, TRUE,
                                         IF i = 0 THEN TRUE ELSE takeoff_first,
                                         IF i # 0 /\ takeoff_index = -1
                                         THEN i ELSE takeoff_index)

\* the first loop (lines 293-340)
RECURSIVE TakeoffLoop(_, _, _, _, _)
TakeoffLoop(inp, i, ht, takeoff_first, takeoff_index) ==
    IF i >= Count(inp) THEN TakeoffTail(inp, i, ht, takeoff_first, takeoff_index)
    ELSE IF ~dm_read(inp, "takeoff", i) THEN ResT(FALSE, <<>>, i + 1, ht)
    ELSE LET item == Item(inp, i) IN
         IF item.nav_cmd \notin {"TAKEOFF", "VTOL_TAKEOFF"}
         THEN TakeoffLoop(inp, i + 1, ht, takeoff_first, takeoff_index)
         ELSE LET takeoff_alt == IF item.altitude_is_relative
                                 THEN item.altitude
                                 ELSE item.altitude - inp.home.alt
                  acceptance_radius ==
                      IF item.acceptance_radius > NAV_EPSILON_POSITION
                      THEN item.acceptance_radius
                      ELSE inp.default_acceptance_radius
              IN  IF takeoff_alt - TakeoffMargin < acceptance_radius
                  THEN ResT(FALSE,
                            <<Ev("navigator_mis_takeoff_too_low",
                                 <<acceptance_radius + TakeoffMargin>>)>>,
                            i + 1, ht)
                  ELSE TakeoffLoop(inp, i + 1, TRUE,
                                   IF i = 0 THEN TRUE ELSE takeoff_first,
                                   IF i # 0 /\ takeoff_index = -1
                                   THEN i ELSE takeoff_index)

\* ht is _has_takeoff on entry
checkTakeoff(inp, ht) == TakeoffLoop(inp, 0, ht, FALSE, -1)

----------------------------------------------------------------------------
(* hasMissionLanding                                                       *)

RECURSIVE HasLandingLoop(_, _, _)
HasLandingLoop(inp, i, mission_landing_found) ==
    IF i >= Count(inp) THEN [found |-> mission_landing_found, reads |-> i]
    ELSE IF ~dm_read(inp, "haslanding", i) THEN [found |-> FALSE, reads |-> i + 1]
    ELSE HasLandingLoop(inp, i + 1,
                        IF Item(inp, i).nav_cmd = "LAND" THEN TRUE
                        ELSE mission_landing_found)

\* hasMissionLanding that also takes a VTOL_LAND item for a landing
RECURSIVE HasAnyLandLoop(_, _, _)
HasAnyLandLoop(inp, i, mission_landing_found) ==
    IF i >= Count(inp) THEN [found |-> mission_landing_found, reads |-> i]
    ELSE IF ~dm_read(inp, "haslanding", i) THEN [found |-> FALSE, reads |-> i + 1]
    ELSE HasAnyLandLoop(inp, i + 1,
                        IF Item(inp, i).nav_cmd \in {"LAND", "VTOL_LAND"}
                        THEN TRUE ELSE mission_landing_found)

hasMissionLandingAnyLand(inp) == HasAnyLandLoop(inp, 0, FALSE)

hasMissionLanding(inp) == HasLandingLoop(inp, 0, FALSE)

----------------------------------------------------------------------------
(* checkFixedWingLanding                                                   *)
(* A result carries has_landing, the value of _has_landing on return.      *)
(* Angles are integers in tenths of a degree.                              *)

ResL(ok, ev, reads, hl) ==
    [ok |-> ok, ev |-> ev, warn |-> FALSE, reads |-> reads, has_landing |-> hl]

\* slopes are held as multiples of 1/TanScale
TanScale == 10000

\* tanf(math::radians(param_fw_lnd_ang + 0.1f)), times TanScale, rounded
\* down, for the landing angles 5.0, 10.0 and 45.0 degrees
MaxGlideSlope(param_fw_lnd_ang) ==
    CASE param_fw_lnd_ang = 50  -> 892
      [] param_fw_lnd_ang = 100 -> 1781
      [] param_fw_lnd_ang = 450 -> 10034

\* the largest x in lo..hi with x * x <= v (lo * lo <= v)
RECURSIVE SqrtSearch(_, _, _)
SqrtSearch(v, lo, hi) ==
    IF lo >= hi THEN lo
    ELSE LET mid == (lo + hi + 1) \div 2
         IN  IF mid * mid <= v THEN SqrtSearch(v, mid, hi)
             ELSE SqrtSearch(v, lo, mid - 1)

\* sqrtf(D * D - r * r) for D > r >= 0, rounded down to the centimetre
TangentLength(D, r) == SqrtSearch(D * D - r * r, 0, D)

\* TooSteep that lets an approach of length zero pass
TooSteepFiniteOnly(dh, d, max_glide_slope) ==
    d # 0 /\ dh * TanScale > max_glide_slope * d

\* glide_slope > max_glide_slope for glide_slope = dh / d with dh > 0: the
\* float division by d = 0 yields +infinity
TooSteep(dh, d, max_glide_slope) ==
    d = 0 \/ dh * TanScale > max_glide_slope * d

\* FwLandItem that looks at the index before it looks for FW_LND_ANG
FwLandItemIndexFirst(inp, i) ==
    LET item == Item(inp, i)
        prev == Item(inp, i - 1)
        Return(ev, r) == [ret |-> TRUE, ev |-> ev, reads |-> r]
        land_alt_amsl == AltAmsl(item, inp.home.alt)
        entrance_alt_amsl == AltAmsl(prev, inp.home.alt)
        relative_approach_altitude == entrance_alt_amsl - land_alt_amsl
        orbit_center_to_land == get_distance_to_next_waypoint(prev.lat, item.lat)
        orbit_radius == Abs(prev.loiter_radius)
        landing_approach_distance ==
            IF prev.nav_cmd = "LOITER_TO_ALT"
            THEN TangentLength(orbit_center_to_land, orbit_radius)
            ELSE get_distance_to_next_waypoint(prev.lat, item.lat)
        param_fw_lnd_ang == inp.fw_lnd_ang.value
        max_glide_slope == MaxGlideSlope(param_fw_lnd_ang)
    IN  IF i = 0
        THEN Return(<<Ev("navigator_mis_starts_w_landing2", <<>>)>>, 0)
        ELSE IF ~inp.fw_lnd_ang.found
        THEN Return(<<Ev("navigator_mis_land_angle_param_missing", <<>>)>>, 0)
        ELSE IF ~dm_read(inp, "fw_prev", i - 1) THEN Return(<<>>, 1)
        ELSE IF ~item_contains_position(prev)
        THEN Return(<<Ev("navigator_mis_req_landing_approach", <<>>)>>, 1)
        ELSE IF relative_approach_altitude <= 0
        THEN Return(<<Ev("navigator_mis_approach_wp_below_land", <<>>)>>, 1)
        ELSE IF /\ prev.nav_cmd = "LOITER_TO_ALT"
                /\ orbit_center_to_land <= orbit_radius
        THEN Return(<<Ev("navigator_mis_land_wp_inside_orbit_radius", <<>>)>>, 1)
        ELSE IF prev.nav_cmd \notin {"LOITER_TO_ALT", "WAYPOINT"}
        THEN Return(<<Ev("navigator_mis_unsupported_landing_approach_wp", <<>>)>>, 1)
        ELSE IF TooSteep(relative_approach_altitude, landing_approach_distance,
                         max_glide_slope)
        THEN Return(<<Ev("navigator_mis_glide_slope_too_steep",
                         <<param_fw_lnd_ang \div 10, param_fw_lnd_ang % 10>>),
                      Ev("navigator_mis_correct_glide_slope",
                         <<Metres((max_glide_slope * landing_approach_distance)
                                      \div TanScale),
                           (relative_approach_altitude * TanScale
                               + 100 * max_glide_slope - 1)
                               \div (100 * max_glide_slope)>>)>>, 1)
        ELSE [ret |-> FALSE, ev |-> <<>>, reads |-> 1]

\* FwLandItem that takes any positional item as the approach entrance
FwLandItemAnyEntrance(inp, i) ==
    LET item == Item(inp, i)
        prev == Item(inp, i - 1)
        Return(ev, r) == [ret |-> TRUE, ev |-> ev, reads |-> r]
        land_alt_amsl == AltAmsl(item, inp.home.alt)
        entrance_alt_amsl == AltAmsl(prev, inp.home.alt)
        relative_approach_altitude == entrance_alt_amsl - land_alt_amsl
        orbit_center_to_land == get_distance_to_next_waypoint(prev.lat, item.lat)
        orbit_radius == Abs(prev.loiter_radius)
        landing_approach_distance ==
            IF prev.nav_cmd = "LOITER_TO_ALT"
            THEN TangentLength(orbit_center_to_land, orbit_radius)
            ELSE get_distance_to_next_waypoint(prev.lat, item.lat)
        param_fw_lnd_ang == inp.fw_lnd_ang.value
        max_glide_slope == MaxGlideSlope(param_fw_lnd_ang)
    IN  IF ~inp.fw_lnd_ang.found
        THEN Return(<<Ev("navigator_mis_land_angle_param_missing", <<>>)>>, 0)
        ELSE IF i = 0
        THEN Return(<<Ev("navigator_mis_starts_w_landing2", <<>>)>>, 0)
        ELSE IF ~dm_read(inp, "fw_prev", i - 1) THEN Return(<<>>, 1)
        ELSE IF ~item_contains_position(prev)
        THEN Return(<<Ev("navigator_mis_req_landing_approach", <<>>)>>, 1)
        ELSE IF relative_approach_altitude <= 0
        THEN Return(<<Ev("navigator_mis_approach_wp_below_land", <<>>)>>, 1)
        ELSE IF /\ prev.nav_cmd = "LOITER_TO_ALT"
                /\ orbit_center_to_land <= orbit_radius
        THEN Return(<<Ev("navigator_mis_land_wp_inside_orbit_radius", <<>>)>>, 1)
        ELSE IF TooSteep(relative_approach_altitude, landing_approach_distance,
                         max_glide_slope)
        THEN Return(<<Ev("navigator_mis_glide_slope_too_steep",
                         <<param_fw_lnd_ang \div 10, param_fw_lnd_ang % 10>>),
                      Ev("navigator_mis_correct_glide_slope",
                         <<Metres((max_glide_slope * landing_approach_distance)
                                      \div TanScale),
                           (relative_approach_altitude * TanScale
                               + 100 * max_glide_slope - 1)
                               \div (100 * max_glide_slope)>>)>>, 1)
        ELSE [ret |-> FALSE, ev |-> <<>>, reads |-> 1]

\* the LAND branch (lines 459-571) for the LAND item at index i: either the
\* sub-check returns there (ret = TRUE, with the events sent), or the walk
\* goes on with landing_valid set and landing_approach_index = i - 1
FwLandItem(inp, i) ==
    LET item == Item(inp, i)
        prev == Item(inp, i - 1)
        Return(ev, r) == [ret |-> TRUE, ev |-> ev, reads |-> r]
        land_alt_amsl == AltAmsl(item, inp.home.alt)
        entrance_alt_amsl == AltAmsl(prev, inp.home.alt)
        relative_approach_altitude == entrance_alt_amsl - land_alt_amsl
        orbit_center_to_land == get_distance_to_next_waypoint(prev.lat, item.lat)
        orbit_radius == Abs(prev.loiter_radius)
        landing_approach_distance ==
            IF prev.nav_cmd = "LOITER_TO_ALT"
            THEN TangentLength(orbit_center_to_land, orbit_radius)
            ELSE get_distance_to_next_waypoint(prev.lat, item.lat)
        param_fw_lnd_ang == inp.fw_lnd_ang.value
        max_glide_slope == MaxGlideSlope(param_fw_lnd_ang)
    IN  IF ~inp.fw_lnd_ang.found
        THEN Return(<<Ev("navigator_mis_land_angle_param_missing", <<>>)>>, 0)
        ELSE IF i = 0
        THEN Return(<<Ev("navigator_mis_starts_w_landing2", <<>>)>>, 0)
        ELSE IF ~dm_read(inp, "fw_prev", i - 1) THEN Return(<<>>, 1)
        ELSE IF ~item_contains_position(prev)
        THEN Return(<<Ev("navigator_mis_req_landing_approach", <<>>)>>, 1)
        ELSE IF relative_approach_altitude <= 0
        THEN Return(<<Ev("navigator_mis_approach_wp_below_land", <<>>)>>, 1)
        ELSE IF /\ prev.nav_cmd = "LOITER_TO_ALT"
                /\ orbit_center_to_land <= orbit_radius
        THEN Return(<<Ev("navigator_mis_land_wp_inside_orbit_radius", <<>>)>>, 1)
        ELSE IF prev.nav_cmd \notin {"LOITER_TO_ALT", "WAYPOINT"}
        THEN Return(<<Ev("navigator_mis_unsupported_landing_approach_wp", <<>>)>>, 1)
        ELSE IF TooSteep(relative_approach_altitude, landing_approach_distance,
                         max_glide_slope)
        THEN Return(<<Ev("navigator_mis_glide_slope_too_steep",
                         <<param_fw_lnd_ang \div 10, param_fw_lnd_ang % 10>>),
                      Ev("navigator_mis_correct_glide_slope",
                         <<Metres((max_glide_slope * landing_approach_distance)
                                      \div TanScale),
                           (relative_approach_altitude * TanScale
                               + 100 * max_glide_slope - 1)
                               \div (100 * max_glide_slope)>>)>>, 1)
        ELSE [ret |-> FALSE, ev |-> <<>>, reads |-> 1]

\* FwTail without the landing_valid test
FwTailIndexOnly(reads, hl, landing_valid, do_land_start_index, landing_approach_index) ==
    IF hl /\ do_land_start_index > landing_approach_index
    THEN ResL(FALSE, <<Ev("navigator_mis_invalid_land", <<>>)>>, reads, hl)
    ELSE ResL(TRUE, <<>>, reads, hl)

\* the final test (lines 582-590)
FwTail(reads, hl, landing_valid, do_land_start_index, landing_approach_index) ==
    IF hl /\ (~landing_valid \/ do_land_start_index > landing_approach_index)
    THEN ResL(FALSE, <<Ev("navigator_mis_invalid_land", <<>>)>>, reads, hl)
    ELSE ResL(TRUE, <<>>, reads, hl)

\* the loop (lines 437-580); n counts the dm_read calls made so far
RECURSIVE FwLoop(_, _, _, _, _, _, _)
FwLoop(inp, i, n, hl, landing_valid, do_land_start_index, landing_approach_index) ==
    IF i >= Count(inp)
    THEN FwTail(n, hl, landing_valid, do_land_start_index, landing_approach_index)
    ELSE IF ~dm_read(inp, "fw", i) THEN ResL(FALSE, <<>>, n + 1, hl)
    ELSE LET item == Item(inp, i)
             land == FwLandItem(inp, i)
         IN  IF item.nav_cmd = "DO_LAND_START"
             THEN IF hl
                  THEN ResL(FALSE, <<Ev("navigator_mis_multiple_land", <<>>)>>,
                            n + 1, hl)
                  ELSE FwLoop(inp, i + 1, n + 1, TRUE, landing_valid, i,
                              landing_approach_index)
             ELSE IF item.nav_cmd = "LAND"
             THEN IF land.ret
                  THEN ResL(FALSE, land.ev, n + 1 + land.reads, TRUE)
                  ELSE FwLoop(inp, i + 1, n + 1 + land.reads, TRUE, TRUE,
                              do_land_start_index, i - 1)
             ELSE IF /\ item.nav_cmd = "RETURN_TO_LAUNCH"
                     /\ hl /\ do_land_start_index < i
             THEN ResL(FALSE, <<Ev("navigator_mis_land_before_rtl", <<>>)>>,
                       n + 1, hl)
             ELSE FwLoop(inp, i + 1, n + 1, hl, landing_valid,
                         do_land_start_index, landing_approach_index)

\* hl is _has_landing on entry
checkFixedWingLanding(inp, hl) == FwLoop(inp, 0, 0, hl, FALSE, 0, 0)

----------------------------------------------------------------------------
(* checkVTOLLanding                                                        *)

VtolTail(reads, hl, do_land_start_index, landing_approach_index) ==
    IF hl /\ do_land_start_index > landing_approach_index
    THEN ResL(FALSE, <<Ev("navigator_mis_invalid_land2", <<>>)>>, reads, hl)
    ELSE ResL(TRUE, <<>>, reads, hl)

\* VtolLoop in which a further DO_LAND_START replaces the recorded one
RECURSIVE VtolLoopLastLandStart(_, _, _, _, _, _)
VtolLoopLastLandStart(inp, i, n, hl, do_land_start_index, landing_approach_index) ==
    IF i >= Count(inp)
    THEN VtolTail(n, hl, do_land_start_index, landing_approach_index)
    ELSE IF ~dm_read(inp, "vtol", i) THEN ResL(FALSE, <<>>, n + 1, hl)
    ELSE LET item == Item(inp, i) IN
         IF item.nav_cmd = "DO_LAND_START"
         THEN VtolLoopLastLandStart(inp, i + 1, n + 1, TRUE, i,
                                    landing_approach_index)
         ELSE IF item.nav_cmd \in {"LAND", "VTOL_LAND"}
         THEN IF i = 0
              THEN ResL(FALSE, <<Ev("navigator_mis_starts_w_land", <<>>)>>,
                        n + 1, TRUE)
              ELSE IF ~dm_read(inp, "vtol_prev", i - 1)
              THEN ResL(FALSE, <<>>, n + 2, TRUE)
              ELSE VtolLoopLastLandStart(inp, i + 1, n + 2, TRUE,
                                         do_land_start_index, i - 1)
         ELSE IF /\ item.nav_cmd = "RETURN_TO_LAUNCH"
                 /\ hl /\ do_land_start_index < i
         THEN ResL(FALSE, <<Ev("navigator_mis_land_before_rtl2", <<>>)>>,
                   n + 1, hl)
         ELSE VtolLoopLastLandStart(inp, i + 1, n + 1, hl, do_land_start_index,
                                    landing_approach_index)

\* VtolLoop that lets a RETURN_TO_LAUNCH item pass after a land start
RECURSIVE VtolLoopRtlAnywhere(_, _, _, _, _, _)
VtolLoopRtlAnywhere(inp, i, n, hl, do_land_start_index, landing_approach_index) ==
    IF i >= Count(inp)
    THEN VtolTail(n, hl, do_land_start_index, landing_approach_index)
    ELSE IF ~dm_read(inp, "vtol", i) THEN ResL(FALSE, <<>>, n + 1, hl)
    ELSE LET item == Item(inp, i) IN
         IF item.nav_cmd = "DO_LAND_START"
         THEN IF hl
              THEN ResL(FALSE, <<Ev("navigator_mis_multi_land", <<>>)>>,
                        n + 1, hl)
              ELSE VtolLoopRtlAnywhere(inp, i + 1, n + 1, TRUE, i,
                                       landing_approach_index)
         ELSE IF item.nav_cmd \in {"LAND", "VTOL_LAND"}
         THEN IF i = 0
              THEN ResL(FALSE, <<Ev("navigator_mis_starts_w_land", <<>>)>>,
                        n + 1, TRUE)
              ELSE IF ~dm_read(inp, "vtol_prev", i - 1)
              THEN ResL(FALSE, <<>>, n + 2, TRUE)
              ELSE VtolLoopRtlAnywhere(inp, i + 1, n + 2, TRUE,
                                       do_land_start_index, i - 1)
         ELSE VtolLoopRtlAnywhere(inp, i + 1, n + 1, hl, do_land_start_index,
                                  landing_approach_index)

RECURSIVE VtolLoop(_, _, _, _, _, _)
VtolLoop(inp, i, n, hl, do_land_start_index, landing_approach_index) ==
    IF i >= Count(inp)
    THEN VtolTail(n, hl, do_land_start_index, landing_approach_index)
    ELSE IF ~dm_read(inp, "vtol", i) THEN ResL(FALSE, <<>>, n + 1, hl)
    ELSE LET item == Item(inp, i) IN
         IF item.nav_cmd = "DO_LAND_START"
         THEN IF hl
              THEN ResL(FALSE, <<Ev("navigator_mis_multi_land", <<>>)>>,
                        n + 1, hl)
              ELSE VtolLoop(inp, i + 1, n + 1, TRUE, i, landing_approach_index)
         ELSE IF item.nav_cmd \in {"LAND", "VTOL_LAND"}
         THEN IF i = 0
              THEN ResL(FALSE, <<Ev("navigator_mis_starts_w_land", <<>>)>>,
                        n + 1, TRUE)
              ELSE IF ~dm_read(inp, "vtol_prev", i - 1)
              THEN ResL(FALSE, <<>>, n + 2, TRUE)
              ELSE VtolLoop(inp, i + 1, n + 2, TRUE, do_land_start_index, i - 1)
         ELSE IF /\ item.nav_cmd = "RETURN_TO_LAUNCH"
                 /\ hl /\ do_land_start_index < i
         THEN ResL(FALSE, <<Ev("navigator_mis_land_before_rtl2", <<>>)>>,
                   n + 1, hl)
         ELSE VtolLoop(inp, i + 1, n + 1, hl, do_land_start_index,
                       landing_approach_index)

\* hl is _has_landing on entry
checkVTOLLanding(inp, hl) == VtolLoop(inp, 0, 0, hl, 0, 0)

----------------------------------------------------------------------------
(* checkTakeoffLandAvailable                                               *)
(* p is _navigator->get_takeoff_land_required().                           *)

\* checkTakeoffLandAvailable whose case 3 is content with one of the two
checkTakeoffLandAvailableEither(p, ht, hl) ==
    CASE p = 0 -> Res(TRUE, <<>>, FALSE, 0)
      [] p = 1 -> IF ht THEN Res(TRUE, <<>>, FALSE, 0)
                  ELSE Res(FALSE, <<Ev("navigator_mis_takeoff_missing", <<>>)>>,
                           FALSE, 0)
      [] p = 2 -> IF hl THEN Res(TRUE, <<>>, FALSE, 0)
                  ELSE Res(FALSE, <<Ev("navigator_mis_land_missing", <<>>)>>,
                           FALSE, 0)
      [] p = 3 -> IF ht \/ hl THEN Res(TRUE, <<>>, FALSE, 0)
                  ELSE Res(FALSE,
                           <<Ev("navigator_mis_takeoff_or_land_missing", <<>>)>>,
                           FALSE, 0)
      [] p = 4 -> IF ht = hl THEN Res(TRUE, <<>>, FALSE, 0)
                  ELSE IF ht
                  THEN Res(FALSE, <<Ev("navigator_mis_add_land_or_rm_to", <<>>)>>,
                           FALSE, 0)
                  ELSE Res(FALSE, <<Ev("navigator_mis_add_to_or_rm_land", <<>>)>>,
                           FALSE, 0)
      [] OTHER -> Res(TRUE, <<>>, FALSE, 0)

\* checkTakeoffLandAvailable whose case 2 sends nothing
checkTakeoffLandAvailableSilent(p, ht, hl) ==
    CASE p = 0 -> Res(TRUE, <<>>, FALSE, 0)
      [] p = 1 -> IF ht THEN Res(TRUE, <<>>, FALSE, 0)
                  ELSE Res(FALSE, <<Ev("navigator_mis_takeoff_missing", <<>>)>>,
                           FALSE, 0)
      [] p = 2 -> IF hl THEN Res(TRUE, <<>>, FALSE, 0)
                  ELSE Res(FALSE, <<>>, FALSE, 0)
      [] p = 3 -> IF ht /\ hl THEN Res(TRUE, <<>>, FALSE, 0)
                  ELSE Res(FALSE,
                           <<Ev("navigator_mis_takeoff_or_land_missing", <<>>)>>,
                           FALSE, 0)
      [] p = 4 -> IF ht = hl THEN Res(TRUE, <<>>, FALSE, 0)
                  ELSE IF ht
                  THEN Res(FALSE, <<Ev("navigator_mis_add_land_or_rm_to", <<>>)>>,
                           FALSE, 0)
                  ELSE Res(FALSE, <<Ev("navigator_mis_add_to_or_rm_land", <<>>)>>,
                           FALSE, 0)
      [] OTHER -> Res(TRUE, <<>>, FALSE, 0)

checkTakeoffLandAvailable(p, ht, hl) ==
    CASE p = 0 -> Res(TRUE, <<>>, FALSE, 0)
      [] p = 1 -> IF ht THEN Res(TRUE, <<>>, FALSE, 0)
                  ELSE Res(FALSE, <<Ev("navigator_mis_takeoff_missing", <<>>)>>,
                           FALSE, 0)
      [] p = 2 -> IF hl THEN Res(TRUE, <<>>, FALSE, 0)
                  ELSE Res(FALSE, <<Ev("navigator_mis_land_missing", <<>>)>>,
                           FALSE, 0)
      [] p = 3 -> IF ht /\ hl THEN Res(TRUE, <<>>, FALSE, 0)
                  ELSE Res(FALSE,
                           <<Ev("navigator_mis_takeoff_or_land_missing", <<>>)>>,
                           FALSE, 0)
      [] p = 4 -> IF ht = hl THEN Res(TRUE, <<>>, FALSE, 0)
                  ELSE IF ht
                  THEN Res(FALSE, <<Ev("navigator_mis_add_land_or_rm_to", <<>>)>>,
                           FALSE, 0)
                  ELSE Res(FALSE, <<Ev("navigator_mis_add_to_or_rm_land", <<>>)>>,
                           FALSE, 0)
      [] OTHER -> Res(TRUE, <<>>, FALSE, 0)

----------------------------------------------------------------------------
(* The inputs of a call: the mission in storage, the storage's read        *)
(* failures, the navigator's state and parameters, and the two limits.     *)

\* longest mission
MaxLen == 3

SeqsUpTo(S, n) == UNION { [1..k -> S] : k \in 0..n }

DefaultItem(cmd) ==
    [nav_cmd |-> cmd, lat |-> 0, altitude |-> 2000,
     altitude_is_relative |-> TRUE, acceptance_radius |-> 0,
     loiter_radius |-> 0, params |-> <<0, 0>>]

Waypoint(lat) == [DefaultItem("WAYPOINT") EXCEPT !.lat = lat]

Takeoff(cmd, alt, rel, acc) ==
    [DefaultItem(cmd) EXCEPT !.altitude = alt, !.altitude_is_relative = rel,
                             !.acceptance_radius = acc]

Land(cmd) == [DefaultItem(cmd) EXCEPT !.lat = 30000, !.altitude = 0]

\* one item per command a sequencing rule looks at
CmdItems ==
    { Waypoint(0), Takeoff("TAKEOFF", 1000, TRUE, 200),
      Takeoff("VTOL_TAKEOFF", 1000, TRUE, 200), Land("LAND"), Land("VTOL_LAND"),
      DefaultItem("DO_LAND_START"), DefaultItem("RETURN_TO_LAUNCH"),
      [DefaultItem("LOITER_TO_ALT") EXCEPT !.loiter_radius = -5000],
      DefaultItem("CONDITION_GATE"), DefaultItem("DELAY") }

VehicleKinds ==
    [is_vtol : BOOLEAN, vehicle_type : {"ROTARY_WING", "FIXED_WING"}]

Base ==
    [mission |-> <<>>, dm_fail |-> {},
     home |-> [lat |-> 0, alt |-> 5000],
     home_valid |-> TRUE, home_alt_valid |-> TRUE,
     max_distance_to_1st_waypoint |-> 0,
     max_distance_between_waypoints |-> 0,
     landed |-> FALSE,
     geofence |-> [valid |-> FALSE, home_required |-> FALSE,
                   max_lat |-> 0, max_alt |-> 0],
     vstatus |-> [is_vtol |-> FALSE, vehicle_type |-> "ROTARY_WING"],
     takeoff_land_required |-> 0,
     fw_lnd_ang |-> [found |-> TRUE, value |-> 50],
     default_acceptance_radius |-> 200]

\* every command sequence, on every vehicle kind
SequenceInputs ==
    { [Base EXCEPT !.mission = m, !.vstatus = v, !.takeoff_land_required = p,
                   !.home_alt_valid = hav]
        : m \in SeqsUpTo(CmdItems, MaxLen), v \in VehicleKinds, p \in {0, 3},
          hav \in BOOLEAN }

\* a takeoff accepted / rejected by the altitude rule, landings, a waypoint
PolicyItems ==
    { Takeoff("TAKEOFF", 1000, TRUE, 200), Takeoff("TAKEOFF", 200, TRUE, 200),
      Land("LAND"), Land("VTOL_LAND"), DefaultItem("DO_LAND_START"),
      Waypoint(0) }

\* every value of the takeoff/landing requirement, also unknown ones
PolicyInputs ==
    { [Base EXCEPT !.mission = m, !.vstatus = v, !.takeoff_land_required = p]
        : m \in SeqsUpTo(PolicyItems, 2), v \in VehicleKinds, p \in -1..6 }

\* waypoints 0 m, 3 cm, 60 m and 250 m north, a gate and a delay at 0 m
DistanceItems ==
    { Waypoint(0), Waypoint(3), Waypoint(6000), Waypoint(25000),
      DefaultItem("CONDITION_GATE"), DefaultItem("DELAY") }

\* the two distance limits (unset, 0, 50 m), the home position, and a storage
\* that fails to read item 1 in both distance checks
DistanceInputs ==
    { [Base EXCEPT !.mission = m, !.max_distance_to_1st_waypoint = m1,
                   !.max_distance_between_waypoints = m2, !.home.lat = hl,
                   !.home_alt_valid = hav, !.dm_fail = f]
        : m \in SeqsUpTo(DistanceItems, MaxLen), m1 \in {-100, 0, 5000},
          m2 \in {-100, 0, 5000}, hl \in {0, 6000}, hav \in BOOLEAN,
          f \in {{}, {<<"first", 1>>, <<"between", 1>>}} }

\* items checkMissionItemValidity looks at: servo commands in and out of
\* range, a command outside the supported set, a landing
ValidityItems ==
    { [DefaultItem("DO_SET_SERVO") EXCEPT !.params = <<5, -2000>>],
      [DefaultItem("DO_SET_SERVO") EXCEPT !.params = <<6, 0>>],
      [DefaultItem("DO_SET_SERVO") EXCEPT !.params = <<0, 2001>>],
      DefaultItem("DO_FOLLOW_REPOSITION"), Land("LAND"), Waypoint(0) }

ValidityInputs ==
    { [Base EXCEPT !.mission = m, !.landed = l, !.vstatus.is_vtol = v]
        : m \in SeqsUpTo(ValidityItems, 2), l \in BOOLEAN, v \in BOOLEAN }

\* waypoints at 20 m and 200 m above home, 5 m below home (AMSL), 250 m away
FenceItems ==
    { Waypoint(0), [Waypoint(0) EXCEPT !.altitude = 20000],
      [Waypoint(0) EXCEPT !.altitude = 4500, !.altitude_is_relative = FALSE],
      Waypoint(25000), DefaultItem("DELAY"),
      [DefaultItem("DELAY") EXCEPT !.altitude_is_relative = FALSE] }

\* a fence 100 m around the reference point up to 150 m AMSL
FenceInputs ==
    { [Base EXCEPT !.mission = m, !.home_valid = hv, !.home_alt_valid = hav,
                   !.geofence = [valid |-> gv, home_required |-> gh,
                                 max_lat |-> 10000, max_alt |-> 15000]]
        : m \in SeqsUpTo(FenceItems, 2), hv \in BOOLEAN, hav \in BOOLEAN,
          gv \in BOOLEAN, gh \in BOOLEAN }

\* the places that call dm_read
ReadSites ==
    { "first", "validity", "between", "geofence", "homealt", "takeoff",
      "takeoff_pre", "fw", "fw_prev", "vtol", "vtol_prev", "haslanding" }

\* one failing read, at any read site, with every check switched on
StorageInputs ==
    { [Base EXCEPT !.mission = m, !.vstatus = v, !.dm_fail = {<<site, i>>},
                   !.max_distance_to_1st_waypoint = 100000,
                   !.max_distance_between_waypoints = 100000,
                   !.geofence = [valid |-> TRUE, home_required |-> FALSE,
                                 max_lat |-> 100000, max_alt |-> 100000]]
        : m \in SeqsUpTo({ Takeoff("TAKEOFF", 1000, TRUE, 200), Waypoint(0),
                           Land("LAND"), DefaultItem("DO_LAND_START") }, 2),
          v \in VehicleKinds, site \in ReadSites, i \in 0..1 }

\* approach entrances 300 m before the landing point, 20 m and 40 m above
\* it, and one on top of it; orbits of radius 50 m, 290 m and 300 m around
\* the first; a landing point at home altitude and one 20 m above it
GlideItems ==
    { Waypoint(0), [Waypoint(0) EXCEPT !.altitude = 4000], Waypoint(30000),
      DefaultItem("DELAY"),
      [Waypoint(0) EXCEPT !.nav_cmd = "LOITER_TO_ALT", !.loiter_radius = -5000],
      [Waypoint(0) EXCEPT !.nav_cmd = "LOITER_TO_ALT", !.loiter_radius = 29000],
      [Waypoint(0) EXCEPT !.nav_cmd = "LOITER_TO_ALT", !.loiter_radius = 30000],
      Land("LAND"), [Land("LAND") EXCEPT !.altitude = 2000] }

\* a fixed-wing vehicle, landing angles of 5, 10 and 45 degrees and a
\* parameter store without FW_LND_ANG, on the ground and in the air
GlideInputs ==
    { [Base EXCEPT !.mission = m, !.landed = l, !.fw_lnd_ang = a,
                   !.vstatus = [is_vtol |-> FALSE, vehicle_type |-> "FIXED_WING"]]
        : m \in SeqsUpTo(GlideItems, MaxLen), l \in BOOLEAN,
          a \in { [found |-> TRUE, value |-> 50], [found |-> TRUE, value |-> 100],
                  [found |-> TRUE, value |-> 450], [found |-> FALSE, value |-> 0] } }

\* takeoffs 3 m and 2.99 m above home, relative and AMSL, with an
\* acceptance radius of 2 m, of 1 cm and without one
TakeoffItems ==
    { Takeoff("TAKEOFF", 300, TRUE, 200), Takeoff("TAKEOFF", 299, TRUE, 200),
      Takeoff("TAKEOFF", 300, TRUE, 0), Takeoff("TAKEOFF", 300, TRUE, 1),
      Takeoff("TAKEOFF", 5300, FALSE, 200), Takeoff("TAKEOFF", 5299, FALSE, 200),
      Takeoff("VTOL_TAKEOFF", 300, TRUE, 200),
      Takeoff("VTOL_TAKEOFF", 299, TRUE, 0), DefaultItem("DELAY") }

\* default acceptance radii of 2 m and 10 m
TakeoffInputs ==
    { [Base EXCEPT !.mission = m, !.default_acceptance_radius = r]
        : m \in SeqsUpTo(TakeoffItems, MaxLen), r \in {200, 1000} }

\* waypoints at, just inside and just outside 50 m and 100 m from home
LimitItems ==
    { Waypoint(0), Waypoint(4999), Waypoint(5000), Waypoint(5001),
      Waypoint(10001), DefaultItem("DELAY") }

\* both distance limits at 50 m, or the first one unset
LimitInputs ==
    { [Base EXCEPT !.mission = m, !.max_distance_to_1st_waypoint = m1,
                   !.max_distance_between_waypoints = 5000]
        : m \in SeqsUpTo(LimitItems, 3), m1 \in {0, 5000} }

InputKinds ==
    { "sequence", "policy", "distance", "validity", "fence", "storage", "glide",
      "takeoff", "limit" }

\* the inputs of a call, by kind
Inputs(kind) ==
    CASE kind = "sequence" -> SequenceInputs
      [] kind = "policy"   -> PolicyInputs
      [] kind = "distance" -> DistanceInputs
      [] kind = "validity" -> ValidityInputs
      [] kind = "fence"    -> FenceInputs
      [] kind = "storage"  -> StorageInputs
      [] kind = "glide"    -> GlideInputs
      [] kind = "takeoff"  -> TakeoffInputs
      [] kind = "limit"    -> LimitInputs

\* longest mission of the repeated-call inputs
PureLen == 2

\* inputs for calls repeated on one object: missions whose result depends on
\* _has_takeoff and _has_landing, a first waypoint beyond the 50 m limit
PureInputs ==
    { [Base EXCEPT !.mission = m, !.vstatus = v, !.takeoff_land_required = 4,
                   !.max_distance_to_1st_waypoint = 5000]
        : m \in SeqsUpTo({ Takeoff("TAKEOFF", 1000, TRUE, 200),
                           DefaultItem("DO_LAND_START"), Land("LAND"),
                           Waypoint(6000) }, PureLen),
          v \in { [is_vtol |-> FALSE, vehicle_type |-> "ROTARY_WING"],
                  [is_vtol |-> FALSE, vehicle_type |-> "FIXED_WING"],
                  [is_vtol |-> TRUE, vehicle_type |-> "ROTARY_WING"] } }

----------------------------------------------------------------------------
(* checkMissionFeasible, step by step                                      *)

Init ==
    /\ pc = "idle"
    /\ in = Base
    /\ has_takeoff = FALSE
    /\ has_landing = FALSE
    /\ warning = FALSE
    /\ failed = FALSE
    /\ events = <<>>
    /\ ran = <<>>
    /\ ret = "none"
    /\ entry = <<>>
    /\ ref = <<>>

\* Enter without the return for an empty mission
EnterNoEmptyReturn(inp) ==
    /\ in' = inp
    /\ warning' = FALSE
    /\ pc' = "home" /\ ret' = "none"
    /\ failed' = FALSE
    /\ events' = <<>>
    /\ ran' = <<>>
    /\ UNCHANGED <<has_takeoff, has_landing, ref>>

\* lines 58-64: the entry, with the return for an empty mission
Enter(inp) ==
    /\ in' = inp
    /\ warning' = FALSE
    /\ IF Count(inp) <= 0
       THEN pc' = "done" /\ ret' = FALSE
       ELSE pc' = "home" /\ ret' = "none"
    /\ failed' = FALSE
    /\ events' = <<>>
    /\ ran' = <<>>
    /\ UNCHANGED <<has_takeoff, has_landing, ref>>

\* a call of checkMissionFeasible
Call ==
    /\ pc = "idle"
    /\ \E kind \in InputKinds : \E inp \in Inputs(kind) : Enter(inp)
    /\ UNCHANGED entry

\* a call whose entry state is kept in the history variable
CallTracked ==
    /\ pc = "idle"
    /\ \E inp \in PureInputs : Enter(inp)
    /\ entry' = <<has_takeoff, has_landing, warning>>

\* Apply with `failed = !check(...)` in place of `failed |= !check(...)`
ApplyOverwrite(name, r, next) ==
    /\ failed' = ~r.ok
    /\ warning' = (warning \/ r.warn)
    /\ events' = events \o r.ev
    /\ ran' = Append(ran, [name |-> name, ok |-> r.ok, ev |-> r.ev,
                           warn |-> r.warn, reads |-> r.reads])
    /\ pc' = next

\* Apply that hands a sub-check's events to the sink ahead of the earlier ones
ApplyEventsAhead(name, r, next) ==
    /\ failed' = (failed \/ ~r.ok)
    /\ warning' = (warning \/ r.warn)
    /\ events' = r.ev \o events
    /\ ran' = Append(ran, [name |-> name, ok |-> r.ok, ev |-> r.ev,
                           warn |-> r.warn, reads |-> r.reads])
    /\ pc' = next

\* Apply in which a sub-check writes the warning flag instead of raising it
ApplyWarningAssigned(name, r, next) ==
    /\ failed' = (failed \/ ~r.ok)
    /\ warning' = r.warn
    /\ events' = events \o r.ev
    /\ ran' = Append(ran, [name |-> name, ok |-> r.ok, ev |-> r.ev,
                           warn |-> r.warn, reads |-> r.reads])
    /\ pc' = next

\* `failed |= !check(...)` for the sub-check `name` with result r, and the
\* check's effects on the warning flag and the event sink
Apply(name, r, next) ==
    /\ failed' = (failed \/ ~r.ok)
    /\ warning' = (warning \/ r.warn)
    /\ events' = events \o r.ev
    /\ ran' = Append(ran, [name |-> name, ok |-> r.ok, ev |-> r.ev,
                           warn |-> r.warn, reads |-> r.reads])
    /\ pc' = next

\* HomeStep that reports the missing position lock without failing
HomeStepNoFail ==
    /\ pc = "home"
    /\ IF ~in.home_alt_valid
       THEN /\ events' = Append(events, Ev("navigator_mis_no_pos_lock", <<>>))
            /\ pc' = "reset"
            /\ UNCHANGED <<failed, warning, ran>>
       ELSE Apply("checkDistanceToFirstWaypoint",
                  checkDistanceToFirstWaypoint(in), "reset")
    /\ UNCHANGED <<in, has_takeoff, has_landing, ret, entry, ref>>

\* lines 68-78
HomeStep ==
    /\ pc = "home"
    /\ IF ~in.home_alt_valid
       THEN /\ failed' = TRUE
            /\ events' = Append(events, Ev("navigator_mis_no_pos_lock", <<>>))
            /\ pc' = "reset"
            /\ UNCHANGED <<warning, ran>>
       ELSE Apply("checkDistanceToFirstWaypoint",
                  checkDistanceToFirstWaypoint(in), "reset")
    /\ UNCHANGED <<in, has_takeoff, has_landing, ret, entry, ref>>

\* Reset that leaves _has_landing as the previous call left it
ResetTakeoffOnly ==
    /\ pc = "reset"
    /\ has_takeoff' = FALSE
    /\ pc' = "validity"
    /\ UNCHANGED <<in, has_landing, warning, failed, events, ran, ret, entry, ref>>

\* lines 82-84
Reset ==
    /\ pc = "reset"
    /\ has_takeoff' = FALSE
    /\ has_landing' = FALSE
    /\ pc' = "validity"
    /\ UNCHANGED <<in, warning, failed, events, ran, ret, entry, ref>>

\* line 87
ItemValidityStep ==
    /\ pc = "validity"
    /\ Apply("checkMissionItemValidity", checkMissionItemValidity(in), "between")
    /\ UNCHANGED <<in, has_takeoff, has_landing, ret, entry, ref>>

\* line 88
BetweenStep ==
    /\ pc = "between"
    /\ Apply("checkDistancesBetweenWaypoints",
             checkDistancesBetweenWaypoints(in), "geofence")
    /\ UNCHANGED <<in, has_takeoff, has_landing, ret, entry, ref>>

\* line 89
GeofenceStep ==
    /\ pc = "geofence"
    /\ Apply("checkGeofence", checkGeofence(in), "homealt")
    /\ UNCHANGED <<in, has_takeoff, has_landing, ret, entry, ref>>

\* line 90
HomeAltStep ==
    /\ pc = "homealt"
    /\ Apply("checkHomePositionAltitude", checkHomePositionAltitude(in), "takeoff")
    /\ UNCHANGED <<in, has_takeoff, has_landing, ret, entry, ref>>

\* line 91
TakeoffStep ==
    /\ pc = "takeoff"
    /\ LET r == checkTakeoff(in, has_takeoff)
       IN  /\ Apply("checkTakeoff", r, "landing")
           /\ has_takeoff' = r.has_takeoff
    /\ UNCHANGED <<in, has_landing, ret, entry, ref>>

\* lines 93-103
LandingStep ==
    /\ pc = "landing"
    /\ IF in.vstatus.is_vtol
       THEN LET r == checkVTOLLanding(in, has_landing)
            IN  /\ Apply("checkVTOLLanding", r, "policy")
                /\ has_landing' = r.has_landing
       ELSE IF in.vstatus.vehicle_type = "FIXED_WING"
       THEN LET r == checkFixedWingLanding(in, has_landing)
            IN  /\ Apply("checkFixedWingLanding", r, "policy")
                /\ has_landing' = r.has_landing
       ELSE LET h == hasMissionLanding(in)
            IN  /\ has_landing' = h.found
                /\ ran' = Append(ran, [name |-> "hasMissionLanding", ok |-> TRUE,
                                       ev |-> <<>>, warn |-> FALSE,
                                       reads |-> h.reads])
                /\ pc' = "policy"
                /\ UNCHANGED <<failed, warning, events>>
    /\ UNCHANGED <<in, has_takeoff, ret, entry, ref>>

\* lines 105-107
PolicyStep ==
    /\ pc = "policy"
    /\ LET r == checkTakeoffLandAvailable(in.takeoff_land_required,
                                          has_takeoff, has_landing)
       IN  /\ Apply("checkTakeoffLandAvailable", r, "done")
           /\ ret' = ~(failed \/ ~r.ok)
    /\ UNCHANGED <<in, has_takeoff, has_landing, entry, ref>>

\* the caller has taken the result; the checker object waits for the next call
Release ==
    /\ pc = "done"
    /\ pc' = "idle"
    /\ in' = Base
    /\ failed' = FALSE
    /\ events' = <<>>
    /\ ran' = <<>>
    /\ ret' = "none"
    /\ entry' = <<>>
    /\ UNCHANGED <<has_takeoff, has_landing, warning, ref>>

\* as Release, and the history keeps this call's inputs and outputs
Capture ==
    /\ pc = "done"
    /\ ref = <<>>
    /\ ref' = <<[in |-> in, ret |-> ret, warning |-> warning, events |-> events]>>
    /\ pc' = "idle"
    /\ in' = Base
    /\ failed' = FALSE
    /\ events' = <<>>
    /\ ran' = <<>>
    /\ ret' = "none"
    /\ entry' = <<>>
    /\ UNCHANGED <<has_takeoff, has_landing, warning>>

Next ==
    \/ Call
    \/ HomeStep
    \/ Reset
    \/ ItemValidityStep
    \/ BetweenStep
    \/ GeofenceStep
    \/ HomeAltStep
    \/ TakeoffStep
    \/ LandingStep
    \/ PolicyStep
    \/ Release

Spec == Init /\ [][Next]_vars

\* calls repeated on one object, one earlier call kept for comparison
NextPure ==
    \/ CallTracked
    \/ HomeStep
    \/ Reset
    \/ ItemValidityStep
    \/ BetweenStep
    \/ GeofenceStep
    \/ HomeAltStep
    \/ TakeoffStep
    \/ LandingStep
    \/ PolicyStep
    \/ Release
    \/ Capture

SpecPure == Init /\ [][NextPure]_vars

----------------------------------------------------------------------------
(* Properties.  A call has returned when pc = "done"; `ran` then lists the *)
(* sub-checks it executed and `events` what it sent.                       *)

Returned == pc = "done"

RanNames == [i \in DOMAIN ran |-> ran[i].name]

\* the call has executed sub-check `name`
HasRun(name) == \E i \in DOMAIN ran : ran[i].name = name

EventIds == [i \in DOMAIN events |-> events[i].id]

Sent(id) == \E i \in DOMAIN events : events[i].id = id

\* the name under which the landing step of a vehicle is recorded
LandingCheckOf(vstatus) ==
    IF vstatus.is_vtol THEN "checkVTOLLanding"
    ELSE IF vstatus.vehicle_type = "FIXED_WING" THEN "checkFixedWingLanding"
    ELSE "hasMissionLanding"

\* the sub-checks that follow the home-altitude branch
GenericChecks(inp) ==
    << "checkMissionItemValidity", "checkDistancesBetweenWaypoints",
       "checkGeofence", "checkHomePositionAltitude", "checkTakeoff",
       LandingCheckOf(inp.vstatus), "checkTakeoffLandAvailable" >>

\* C1: a call on a mission with count = 0 returns false and sends no event,
\* whatever the vehicle state, the configuration and the geofence are.
C1_EmptyMissionInfeasible ==
    (Returned /\ Count(in) = 0) => (ret = FALSE /\ events = <<>> /\ ran = <<>>)

\* an empty mission was rejected although home altitude is valid and nothing
\* is required of the mission
C1_Witness ==
    /\ Returned /\ Count(in) = 0 /\ ret = FALSE
    /\ in.home_alt_valid /\ in.takeoff_land_required = 0

\* C2: a call on a non-empty mission executes item validity, inter-waypoint
\* distance, geofence, home altitude, takeoff, the landing check of the
\* vehicle type and policy arbitration, in this order and whatever failed
\* before, and returns true exactly when home altitude is valid and no
\* executed sub-check returned failure.
C2_AllChecksRunAndAggregate ==
    (Returned /\ Count(in) > 0) =>
        /\ RanNames = (IF in.home_alt_valid
                       THEN <<"checkDistanceToFirstWaypoint">> ELSE <<>>)
                          \o GenericChecks(in)
        /\ ret = (in.home_alt_valid /\ \A i \in DOMAIN ran : ran[i].ok)

\* the first sub-check failed, the others ran all the same, and the
\* inter-waypoint distance check failed too
C2_Witness ==
    /\ Returned /\ Count(in) > 0 /\ in.home_alt_valid /\ ret = FALSE
    /\ ~ran[1].ok /\ Len(ran) = 8 /\ ran[2].ok /\ ~ran[3].ok /\ ran[8].ok

\* C3: on a non-empty mission, invalid home altitude makes the call return
\* false, send NoPositionLock exactly once and first, and skip the
\* distance-to-first-waypoint check; with valid home altitude NoPositionLock
\* is never sent and the distance-to-first-waypoint check runs.
C3_NoPositionLock ==
    (Returned /\ Count(in) > 0) =>
        IF ~in.home_alt_valid
        THEN /\ ret = FALSE
             /\ Len(events) >= 1
             /\ events[1].id = "navigator_mis_no_pos_lock"
             /\ \A i \in DOMAIN events :
                   events[i].id = "navigator_mis_no_pos_lock" => i = 1
             /\ ~HasRun("checkDistanceToFirstWaypoint")
        ELSE /\ ~Sent("navigator_mis_no_pos_lock")
             /\ HasRun("checkDistanceToFirstWaypoint")

\* home altitude is invalid and the call went on to report more
C3_Witness ==
    /\ Returned /\ Count(in) > 0 /\ ~in.home_alt_valid
    /\ Len(events) > 1 /\ Len(ran) = 7

\* C4: a call's return value, final warning flag and event sequence are
\* those of every earlier call with the same inputs, whatever the calls in
\* between left in the object.
C4_SameInputsSameOutputs ==
    (Returned /\ ref # <<>> /\ ref[1].in = in) =>
        /\ ref[1].ret = ret
        /\ ref[1].warning = warning
        /\ ref[1].events = events

\* a fixed-wing mission with a land start is checked a second time, on an
\* object whose _has_landing and warning flag were left set
C4_Witness ==
    /\ Returned /\ ref # <<>> /\ ref[1].in = in
    /\ entry = <<FALSE, TRUE, TRUE>>
    /\ in.vstatus = [is_vtol |-> FALSE, vehicle_type |-> "FIXED_WING"]
    /\ \E i \in DOMAIN in.mission : in.mission[i].nav_cmd = "DO_LAND_START"
    /\ events # <<>>

\* the result of sub-check `name`, once the call has executed it
RanOf(name) == ran[CHOOSE i \in DOMAIN ran : ran[i].name = name]

Cmds(inp) == { inp.mission[i].nav_cmd : i \in DOMAIN inp.mission }

IsTakeoff(item) == item.nav_cmd \in {"TAKEOFF", "VTOL_TAKEOFF"}

\* the altitude rule for a takeoff item: its altitude above home, less one
\* metre, is at least the acceptance radius in force
TakeoffAltitudeOk(inp, item) ==
    LET alt == IF item.altitude_is_relative THEN item.altitude
               ELSE item.altitude - inp.home.alt
        r == IF item.acceptance_radius > NAV_EPSILON_POSITION
             THEN item.acceptance_radius ELSE inp.default_acceptance_radius
    IN  alt - TakeoffMargin >= r

\* k is the place of the first takeoff item of the mission (counted from 1)
FirstTakeoffAt(inp, k) ==
    /\ k \in DOMAIN inp.mission
    /\ IsTakeoff(inp.mission[k])
    /\ \A j \in 1..(k - 1) : ~IsTakeoff(inp.mission[j])

\* C5: in checkTakeoff, when every takeoff item satisfies the altitude rule
\* and the first takeoff is not the first item, ANY item in front of it whose
\* command is not allowed before takeoff makes the sub-check send
\* TakeoffNotFirst and return false.
C5_AnyDisallowedItemRejects ==
    ( /\ HasRun("checkTakeoff")
      /\ in.dm_fail = {}
      /\ \A i \in DOMAIN in.mission :
            IsTakeoff(in.mission[i]) => TakeoffAltitudeOk(in, in.mission[i])
      /\ \E k \in DOMAIN in.mission :
            /\ k > 1
            /\ FirstTakeoffAt(in, k)
            /\ \E j \in 1..(k - 1) :
                  in.mission[j].nav_cmd \notin AllowedBeforeTakeoff )
    => /\ ~RanOf("checkTakeoff").ok
       /\ RanOf("checkTakeoff").ev =
              <<Ev("navigator_mis_takeoff_not_first", <<>>)>>

\* the commands that set _has_landing in the landing step of a vehicle
LandingCmdsOf(vstatus) ==
    IF vstatus.is_vtol THEN {"LAND", "VTOL_LAND", "DO_LAND_START"}
    ELSE IF vstatus.vehicle_type = "FIXED_WING" THEN {"LAND", "DO_LAND_START"}
    ELSE {"LAND"}

PolicyPass(p, ht, hl) ==
    \/ p = 0
    \/ p = 1 /\ ht
    \/ p = 2 /\ hl
    \/ p = 3 /\ ht /\ hl
    \/ p = 4 /\ ht = hl
    \/ p \notin 0..4

\* the failure event of the policy table
PolicyEvent(p, ht, hl) ==
    CASE p = 1 -> "navigator_mis_takeoff_missing"
      [] p = 2 -> "navigator_mis_land_missing"
      [] p = 3 -> "navigator_mis_takeoff_or_land_missing"
      [] p = 4 /\ ht -> "navigator_mis_add_land_or_rm_to"
      [] p = 4 /\ ~ht -> "navigator_mis_add_to_or_rm_land"

\* C7: checkTakeoffLandAvailable follows the policy table: it passes exactly
\* under the table's pass condition (every p outside 0..4 passes), sends no
\* event when it passes and exactly the table's event when it fails.
C7_PolicyTable ==
    HasRun("checkTakeoffLandAvailable") =>
        LET r == RanOf("checkTakeoffLandAvailable")
            p == in.takeoff_land_required
        IN  /\ r.ok = PolicyPass(p, has_takeoff, has_landing)
            /\ r.ok => r.ev = <<>>
            /\ ~r.ok => r.ev = <<Ev(PolicyEvent(p, has_takeoff, has_landing), <<>>)>>

\* parity is required and only a landing is present
C7_Witness ==
    /\ HasRun("checkTakeoffLandAvailable")
    /\ in.takeoff_land_required = 4 /\ ~has_takeoff /\ has_landing
    /\ RanOf("checkTakeoffLandAvailable").ev =
           <<Ev("navigator_mis_add_to_or_rm_land", <<>>)>>

\* items i and i + 1 of the mission lie at the same position, one is a
\* CONDITION_GATE and the other holds a position
GatePairAt(inp, i) ==
    LET a == inp.mission[i]
        b == inp.mission[i + 1]
    IN  /\ a.lat = b.lat
        /\ \/ a.nav_cmd = "CONDITION_GATE" /\ item_contains_position(b)
           \/ b.nav_cmd = "CONDITION_GATE" /\ item_contains_position(a)

\* C8: with the inter-waypoint check switched on and every item of the
\* mission at one position, a CONDITION_GATE next to a positional item makes
\* checkDistancesBetweenWaypoints fail with GateCoincidence.
C8_GateCoincidenceRejected ==
    ( /\ HasRun("checkDistancesBetweenWaypoints")
      /\ in.dm_fail = {}
      /\ in.max_distance_between_waypoints > 0
      /\ \A i \in DOMAIN in.mission : in.mission[i].lat = in.mission[1].lat
      /\ \E i \in 1..(Count(in) - 1) : GatePairAt(in, i) )
    => /\ ~RanOf("checkDistancesBetweenWaypoints").ok
       /\ Len(RanOf("checkDistancesBetweenWaypoints").ev) = 1
       /\ RanOf("checkDistancesBetweenWaypoints").ev[1].id =
              "navigator_mis_wp_gate_too_close"

\* C9: with max_distance_between_waypoints <= 0 the inter-waypoint check
\* returns true, sends no event, leaves the warning flag alone and reads
\* nothing from storage, whatever the mission is.
C9_UnsetLimitNeverFails ==
    (HasRun("checkDistancesBetweenWaypoints")
        /\ in.max_distance_between_waypoints <= 0)
    => LET r == RanOf("checkDistancesBetweenWaypoints")
       IN  r.ok /\ r.ev = <<>> /\ ~r.warn /\ r.reads = 0

\* the limit is unset, two positional items lie 250 m apart and the storage
\* would fail the check's read of item 1
C9_Witness ==
    /\ HasRun("checkDistancesBetweenWaypoints")
    /\ in.max_distance_between_waypoints <= 0
    /\ <<"between", 1>> \in in.dm_fail
    /\ Count(in) >= 2
    /\ item_contains_position(in.mission[1])
    /\ item_contains_position(in.mission[2])
    /\ Abs(in.mission[1].lat - in.mission[2].lat) = 25000

\* C10: on a mission without a positional item whose reads all succeed,
\* both distance checks return true and send no event, whatever the two
\* limits and the home position are.
C10_NoPositionalItemPasses ==
    ( /\ \A i \in DOMAIN in.mission : ~item_contains_position(in.mission[i])
      /\ in.dm_fail = {} )
    => \A i \in DOMAIN ran :
          ran[i].name \in {"checkDistanceToFirstWaypoint",
                           "checkDistancesBetweenWaypoints"}
             => ran[i].ok /\ ran[i].ev = <<>>

\* both limits are set, home lies 60 m from the items, none of which holds a
\* position, and both distance checks have run
C10_Witness ==
    /\ HasRun("checkDistanceToFirstWaypoint")
    /\ HasRun("checkDistancesBetweenWaypoints")
    /\ Count(in) >= 2
    /\ \A i \in DOMAIN in.mission : ~item_contains_position(in.mission[i])
    /\ in.dm_fail = {}
    /\ in.max_distance_to_1st_waypoint > 0
    /\ in.max_distance_between_waypoints > 0
    /\ in.home.lat = 6000
    /\ RanOf("checkDistanceToFirstWaypoint").reads = Count(in)

\* C11 as stated: with geofence.valid() false, checkGeofence returns true
\* and sends no event, whatever home validity and isHomeRequired() are.
C11_Original ==
    (HasRun("checkGeofence") /\ ~in.geofence.valid)
    => RanOf("checkGeofence").ok /\ RanOf("checkGeofence").ev = <<>>

\* C11, amended: with geofence.valid() false, checkGeofence reads no item;
\* it returns true and sends no event unless the geofence requires home and
\* home is invalid, and then it sends GeofenceRequiresHome and returns false.
C11_InvalidFenceSkipsItems ==
    (HasRun("checkGeofence") /\ ~in.geofence.valid)
    => LET r == RanOf("checkGeofence")
       IN  /\ r.reads = 0
           /\ IF in.geofence.home_required /\ ~in.home_valid
              THEN ~r.ok /\ r.ev = <<Ev("navigator_mis_geofence_no_home", <<>>)>>
              ELSE r.ok /\ r.ev = <<>>

\* an invalid geofence that does not require home, home invalid, and a
\* relative-altitude waypoint 250 m out that a valid fence would reject
C11_Witness ==
    /\ HasRun("checkGeofence")
    /\ ~in.geofence.valid /\ ~in.geofence.home_required /\ ~in.home_valid
    /\ \E i \in DOMAIN in.mission :
          /\ in.mission[i].nav_cmd = "WAYPOINT"
          /\ in.mission[i].altitude_is_relative
          /\ in.mission[i].lat > in.geofence.max_lat
    /\ RanOf("checkGeofence").ok

\* the places (counted from 1) of the positional items whose altitude,
\* brought to AMSL, is below the home altitude
BelowHome(inp) ==
    { i \in DOMAIN inp.mission :
        /\ inp.mission[i].nav_cmd \in PositionalCmds
        /\ (IF inp.mission[i].altitude_is_relative
            THEN inp.mission[i].altitude + inp.home.alt
            ELSE inp.mission[i].altitude) < inp.home.alt }

\* C12: with home altitude valid and all reads succeeding,
\* checkHomePositionAltitude returns true; it sends one WaypointBelowHome
\* event per positional item below home, in mission order with the item's
\* 1-based index, and nothing else, and sets the warning flag when there is
\* such an item.
C12_BelowHomeWarnsOnly ==
    (HasRun("checkHomePositionAltitude") /\ in.home_alt_valid /\ in.dm_fail = {})
    => LET r == RanOf("checkHomePositionAltitude")
       IN  /\ r.ok
           /\ Len(r.ev) = Cardinality(BelowHome(in))
           /\ \A k \in DOMAIN r.ev :
                 /\ r.ev[k].id = "navigator_mis_wp_below_home"
                 /\ Len(r.ev[k].args) = 1
                 /\ r.ev[k].args[1] \in BelowHome(in)
                 /\ \A j \in 1..(k - 1) : r.ev[j].args[1] < r.ev[k].args[1]
           /\ r.warn = (BelowHome(in) # {})
           /\ BelowHome(in) # {} => warning

\* two waypoints below home: two events, the check passes, the flag is set
C12_Witness ==
    /\ HasRun("checkHomePositionAltitude")
    /\ in.home_alt_valid /\ in.dm_fail = {}
    /\ BelowHome(in) = {1, 2}
    /\ RanOf("checkHomePositionAltitude").ok
    /\ Len(RanOf("checkHomePositionAltitude").ev) = 2
    /\ warning

\* C13: within one call the warning flag is cleared only by the entry of
\* checkMissionFeasible, before any sub-check runs; no later step of the call
\* takes it from true to false.
C13_WarningMonotonic ==
    [][ /\ (pc = "idle" /\ pc' # "idle") => ~warning'
        /\ (pc # "idle") => (warning => warning') ]_vars

\* the inter-waypoint check has set the flag, three later sub-checks that
\* set nothing have run, and the flag is still set at the return
C13_Witness ==
    /\ Returned
    /\ HasRun("checkDistancesBetweenWaypoints")
    /\ RanOf("checkDistancesBetweenWaypoints").warn
    /\ ~RanOf("checkHomePositionAltitude").warn
    /\ warning

\* the vehicle is one whose landing is checked by a landing sequencer
Sequenced(vstatus) == vstatus.is_vtol \/ vstatus.vehicle_type = "FIXED_WING"

LandStarts(inp) ==
    { i \in DOMAIN inp.mission : inp.mission[i].nav_cmd = "DO_LAND_START" }

\* the landing commands of the vehicle's sequencer
LandingItemsOf(vstatus) ==
    IF vstatus.is_vtol THEN {"LAND", "VTOL_LAND"} ELSE {"LAND"}

\* some item in front of place j has set has_landing
LandingSeenBefore(inp, j) ==
    \E k \in 1..(j - 1) :
        inp.mission[k].nav_cmd
            \in {"DO_LAND_START"} \cup LandingItemsOf(inp.vstatus)

\* the sequencer goes past the landing item at place k (counted from 1)
LandAccepted(inp, k) ==
    /\ k > 1
    /\ inp.vstatus.is_vtol \/ ~FwLandItem(inp, k - 1).ret

\* with all reads succeeding, the sequencer's walk gets to place j: no item
\* in front of j makes it return
ScanReaches(inp, j) ==
    \A k \in 1..(j - 1) :
        LET cmd == inp.mission[k].nav_cmd
        IN  /\ cmd \in {"DO_LAND_START", "RETURN_TO_LAUNCH"}
                  => ~LandingSeenBefore(inp, k)
            /\ cmd \in LandingItemsOf(inp.vstatus) => LandAccepted(inp, k)

MultipleLandStart(vstatus) ==
    IF vstatus.is_vtol THEN "navigator_mis_multi_land"
    ELSE "navigator_mis_multiple_land"

LandBeforeRTL(vstatus) ==
    IF vstatus.is_vtol THEN "navigator_mis_land_before_rtl2"
    ELSE "navigator_mis_land_before_rtl"

\* C14: for fixed-wing and VTOL vehicles a mission with more than one
\* DO_LAND_START item fails the landing sub-check, and a DO_LAND_START that
\* the walk reaches when has_landing is already true makes the sub-check
\* send MultipleLandStart, and nothing else, and return false.
C14_OneLandStart ==
    (Sequenced(in.vstatus) /\ HasRun(LandingCheckOf(in.vstatus)))
    => LET r == RanOf(LandingCheckOf(in.vstatus))
       IN  /\ Cardinality(LandStarts(in)) > 1 => ~r.ok
           /\ \A j \in LandStarts(in) :
                 (in.dm_fail = {} /\ LandingSeenBefore(in, j) /\ ScanReaches(in, j))
                 => /\ ~r.ok
                    /\ r.ev = <<Ev(MultipleLandStart(in.vstatus), <<>>)>>

\* a fixed-wing mission with one DO_LAND_START, placed after an accepted
\* LAND item: the land start is rejected as a second one
C14_Witness ==
    /\ HasRun("checkFixedWingLanding")
    /\ in.dm_fail = {}
    /\ LandStarts(in) = {3}
    /\ in.mission[2].nav_cmd = "LAND"
    /\ LandAccepted(in, 2)
    /\ RanOf("checkFixedWingLanding").ev =
           <<Ev("navigator_mis_multiple_land", <<>>)>>

\* C15: for fixed-wing and VTOL vehicles a mission with a DO_LAND_START item
\* in front of a RETURN_TO_LAUNCH item fails the landing sub-check; when the
\* walk reaches that RETURN_TO_LAUNCH item, the sub-check sends
\* LandBeforeRTL and nothing else.
C15_NoLandStartBeforeRTL ==
    (Sequenced(in.vstatus) /\ HasRun(LandingCheckOf(in.vstatus)))
    => LET r == RanOf(LandingCheckOf(in.vstatus))
       IN  \A i \in DOMAIN in.mission :
              (/\ in.mission[i].nav_cmd = "RETURN_TO_LAUNCH"
               /\ \E d \in LandStarts(in) : d < i)
              => /\ ~r.ok
                 /\ (in.dm_fail = {} /\ ScanReaches(in, i))
                        => r.ev = <<Ev(LandBeforeRTL(in.vstatus), <<>>)>>

\* a VTOL mission: land start, a waypoint, then RETURN_TO_LAUNCH
C15_Witness ==
    /\ HasRun("checkVTOLLanding")
    /\ in.dm_fail = {}
    /\ Count(in) = 3
    /\ in.mission[1].nav_cmd = "DO_LAND_START"
    /\ in.mission[2].nav_cmd = "WAYPOINT"
    /\ in.mission[3].nav_cmd = "RETURN_TO_LAUNCH"
    /\ RanOf("checkVTOLLanding").ev =
           <<Ev("navigator_mis_land_before_rtl2", <<>>)>>

\* the places of the LAND items of the mission
Lands(inp) == { k \in DOMAIN inp.mission : inp.mission[k].nav_cmd = "LAND" }

\* altitude above mean sea level of the item at place k
Amsl(inp, k) ==
    IF inp.mission[k].altitude_is_relative
    THEN inp.mission[k].altitude + inp.home.alt
    ELSE inp.mission[k].altitude

\* the length of the approach to the LAND item at place k > 1 from the item
\* in front of it: the distance from a waypoint, the tangent from an orbit
ApproachLength(inp, k) ==
    LET D == Abs(inp.mission[k - 1].lat - inp.mission[k].lat)
        r == Abs(inp.mission[k - 1].loiter_radius)
    IN  IF inp.mission[k - 1].nav_cmd = "LOITER_TO_ALT"
        THEN (IF D > r THEN TangentLength(D, r) ELSE 0)
        ELSE D

StorageFailureIds ==
    { "navigator_mis_storage_failure", "navigator_mis_sd_failure",
      "navigator_mis_storage_failure2" }

\* a call on a non-empty mission performs the read of item 0 at `site`
FirstReadDone(inp, site) ==
    CASE site = "first" ->
             inp.home_alt_valid /\ inp.max_distance_to_1st_waypoint > 0
      [] site = "validity" -> TRUE
      [] site = "between" -> inp.max_distance_between_waypoints > 0
      [] site = "geofence" ->
             /\ inp.geofence.valid
             /\ ~(inp.geofence.home_required /\ ~inp.home_valid)
      [] site = "homealt" -> TRUE
      [] site = "takeoff" -> TRUE
      [] site = "fw" ->
             ~inp.vstatus.is_vtol /\ inp.vstatus.vehicle_type = "FIXED_WING"
      [] site = "vtol" -> inp.vstatus.is_vtol
      [] site = "haslanding" -> ~Sequenced(inp.vstatus)
      [] OTHER -> FALSE

\* C17: when a storage read performed during a call fails, in whichever
\* sub-check, the call returns false and a StorageFailure event is sent.
C17_StorageFailureReported ==
    ( /\ Returned /\ Count(in) > 0
      /\ \E site \in ReadSites :
            <<site, 0>> \in in.dm_fail /\ FirstReadDone(in, site) )
    => /\ ret = FALSE
       /\ \E k \in DOMAIN events : events[k].id \in StorageFailureIds

\* the place in the order of sub-checks of the one that sends event `id`
Stage(id) ==
    CASE id \in { "navigator_mis_no_pos_lock", "navigator_mis_storage_failure",
                  "navigator_mis_first_wp_too_far" } -> 0
      [] id \in { "navigator_mis_sd_failure", "navigator_mis_unsup_cmd",
                  "navigator_mis_act_index", "navigator_mis_act_range",
                  "navigator_mis_starts_w_landing" } -> 1
      [] id \in { "navigator_mis_storage_failure2",
                  "navigator_mis_wp_dist_too_far",
                  "navigator_mis_wp_gate_too_close" } -> 2
      [] id \in { "navigator_mis_geofence_no_home",
                  "navigator_mis_geofence_no_home2",
                  "navigator_mis_geofence_violation" } -> 3
      [] id \in { "navigator_mis_no_home_rel_alt",
                  "navigator_mis_wp_below_home" } -> 4
      [] id \in { "navigator_mis_takeoff_too_low",
                  "navigator_mis_takeoff_not_first" } -> 5
      [] id \in { "navigator_mis_takeoff_missing", "navigator_mis_land_missing",
                  "navigator_mis_takeoff_or_land_missing",
                  "navigator_mis_add_land_or_rm_to",
                  "navigator_mis_add_to_or_rm_land" } -> 7
      [] OTHER -> 6

\* the events of the VTOL landing sequencer; the other events of stage 6 are
\* those of the fixed-wing one
VtolLandingIds ==
    { "navigator_mis_multi_land", "navigator_mis_starts_w_land",
      "navigator_mis_land_before_rtl2", "navigator_mis_invalid_land2" }

\* C18: the events of one call reach the sink in the order of the
\* sub-checks: first-waypoint stage (NoPositionLock in its place), item
\* validity, inter-waypoint distance, geofence, home altitude, takeoff,
\* landing by vehicle type, policy; no event of a later sub-check comes
\* before one of an earlier sub-check.
C18_EventsInSubCheckOrder ==
    /\ \A i, j \in DOMAIN events :
          i < j => Stage(events[i].id) <= Stage(events[j].id)
    /\ \A i \in DOMAIN events :
          /\ events[i].id = "navigator_mis_no_pos_lock"
                => i = 1 /\ ~in.home_alt_valid
          /\ Stage(events[i].id) = 6
                => /\ Sequenced(in.vstatus)
                   /\ in.vstatus.is_vtol = (events[i].id \in VtolLandingIds)

\* a call that has sent events of four sub-checks, the first and the last
\* of them among these
C18_Witness ==
    /\ Returned
    /\ Cardinality({ Stage(events[i].id) : i \in DOMAIN events }) >= 4
    /\ Stage(events[1].id) = 0
    /\ Stage(events[Len(events)].id) = 7

\* the acceptance radius in force for a takeoff item
TakeoffRadius(inp, item) ==
    IF item.acceptance_radius > NAV_EPSILON_POSITION
    THEN item.acceptance_radius ELSE inp.default_acceptance_radius

\* the places of the takeoff items that break the altitude rule
TooLowTakeoffs(inp) ==
    { k \in DOMAIN inp.mission :
        IsTakeoff(inp.mission[k]) /\ ~TakeoffAltitudeOk(inp, inp.mission[k]) }

\* C19: with all reads succeeding, checkTakeoff returns false with
\* TakeoffAltTooLow carrying r + 1 m at the first takeoff item with
\* alt - 1 m < r, alt being the item's altitude above home and r its
\* acceptance radius if above NAV_EPSILON_POSITION, else the default one;
\* every takeoff item in front of it, or every takeoff item if there is none
\* such, is accepted and sets has_takeoff.
C19_TakeoffAltitudeRule ==
    (HasRun("checkTakeoff") /\ in.dm_fail = {})
    => LET r == RanOf("checkTakeoff")
           low == TooLowTakeoffs(in)
           j == CHOOSE k \in low : \A l \in low : k <= l
       IN  IF low # {}
           THEN /\ ~r.ok
                /\ r.ev = <<Ev("navigator_mis_takeoff_too_low",
                               <<TakeoffRadius(in, in.mission[j]) + TakeoffMargin>>)>>
                /\ has_takeoff = (\E k \in 1..(j - 1) : IsTakeoff(in.mission[k]))
           ELSE /\ \A e \in DOMAIN r.ev :
                      r.ev[e].id # "navigator_mis_takeoff_too_low"
                /\ has_takeoff = (\E k \in DOMAIN in.mission :
                                      IsTakeoff(in.mission[k]))

\* default radius 10 m: a takeoff 3 m up with its own radius of 1 cm is
\* accepted, the next one, 2.99 m up with a radius of 2 m, is rejected
C19_Witness ==
    /\ HasRun("checkTakeoff")
    /\ in.dm_fail = {}
    /\ in.default_acceptance_radius = 1000
    /\ Count(in) = 2
    /\ in.mission[1] = Takeoff("TAKEOFF", 300, TRUE, 1)
    /\ in.mission[2] = Takeoff("TAKEOFF", 299, TRUE, 200)
    /\ has_takeoff
    /\ RanOf("checkTakeoff").ev =
           <<Ev("navigator_mis_takeoff_too_low", <<300>>)>>

StartsWithLanding(vstatus) ==
    IF vstatus.is_vtol THEN "navigator_mis_starts_w_land"
    ELSE "navigator_mis_starts_w_landing2"

\* the mission's first item is a landing command of the vehicle's sequencer,
\* and the sequencer has run with all reads succeeding
LandingFirst ==
    /\ Sequenced(in.vstatus)
    /\ HasRun(LandingCheckOf(in.vstatus))
    /\ in.dm_fail = {}
    /\ in.mission[1].nav_cmd \in LandingItemsOf(in.vstatus)

\* C20 as stated: a landing command at index 0 makes the landing sequencer
\* send StartsWithLanding and return false, whatever the landed flag is and
\* whether FW_LND_ANG exists or not.
C20_Original ==
    LandingFirst
    => /\ ~RanOf(LandingCheckOf(in.vstatus)).ok
       /\ RanOf(LandingCheckOf(in.vstatus)).ev =
              <<Ev(StartsWithLanding(in.vstatus), <<>>)>>

\* C20, amended: a landing command at index 0 makes the landing sequencer
\* return false, whatever the landed flag is; the one event it sends is
\* StartsWithLanding, except that the fixed-wing sequencer sends
\* LandAngleParamMissing instead when FW_LND_ANG does not exist.
C20_LandingFirstRejected ==
    LandingFirst
    => /\ ~RanOf(LandingCheckOf(in.vstatus)).ok
       /\ RanOf(LandingCheckOf(in.vstatus)).ev =
              (IF ~in.vstatus.is_vtol /\ ~in.fw_lnd_ang.found
               THEN <<Ev("navigator_mis_land_angle_param_missing", <<>>)>>
               ELSE <<Ev(StartsWithLanding(in.vstatus), <<>>)>>)

\* a fixed-wing vehicle on the ground without FW_LND_ANG, LAND first
C20_Witness ==
    /\ LandingFirst
    /\ ~in.vstatus.is_vtol /\ ~in.fw_lnd_ang.found /\ in.landed
    /\ RanOf("checkFixedWingLanding").ev =
           <<Ev("navigator_mis_land_angle_param_missing", <<>>)>>

\* the places of the items that hold a position
Positionals(inp) ==
    { k \in DOMAIN inp.mission : inp.mission[k].nav_cmd \in PositionalCmds }

\* distance from home to the item at place k
HomeDistance(inp, k) == Abs(inp.mission[k].lat - inp.home.lat)

\* C21: with all reads succeeding and a limit > 0,
\* checkDistanceToFirstWaypoint fails, sending FirstWaypointTooFar and
\* setting the warning flag, iff the lowest-index positional item lies at a
\* distance >= the limit from home; no other item has a say. With a limit
\* <= 0 the check passes.
C21_FirstPositionalItemDecides ==
    HasRun("checkDistanceToFirstWaypoint")
    => LET r == RanOf("checkDistanceToFirstWaypoint")
           limit == in.max_distance_to_1st_waypoint
           P == Positionals(in)
           f == CHOOSE k \in P : \A l \in P : k <= l
       IN  /\ limit <= 0 => r.ok /\ r.ev = <<>> /\ ~r.warn
           /\ (limit > 0 /\ in.dm_fail = {})
              => IF P # {} /\ HomeDistance(in, f) >= limit
                 THEN /\ ~r.ok /\ r.warn
                      /\ r.ev = <<Ev("navigator_mis_first_wp_too_far",
                                     <<HomeDistance(in, f) \div 100,
                                       limit \div 100>>)>>
                 ELSE r.ok /\ r.ev = <<>> /\ ~r.warn

\* the first positional item, behind a delay, lies 49.99 m from home, the
\* next one 100.01 m: the check passes
C21_Witness ==
    /\ HasRun("checkDistanceToFirstWaypoint")
    /\ in.dm_fail = {}
    /\ in.max_distance_to_1st_waypoint = 5000
    /\ Positionals(in) = {2, 3}
    /\ HomeDistance(in, 2) = 4999
    /\ HomeDistance(in, 3) = 10001
    /\ RanOf("checkDistanceToFirstWaypoint").ok

\* a and b are positional items with no positional item between them
NextPositional(inp, a, b) ==
    /\ a \in Positionals(inp) /\ b \in Positionals(inp) /\ a < b
    /\ \A k \in (a + 1)..(b - 1) : k \notin Positionals(inp)

PairDistance(inp, a, b) == Abs(inp.mission[a].lat - inp.mission[b].lat)

PairTooFar(inp, a, b) ==
    PairDistance(inp, a, b) > inp.max_distance_between_waypoints

PairGateCoincides(inp, a, b) ==
    /\ PairDistance(inp, a, b) < GateMinDist
    /\ "CONDITION_GATE" \in {inp.mission[a].nav_cmd, inp.mission[b].nav_cmd}

\* the places b of the positional items that break a rule with the
\* positional item before them
BadPairEnds(inp) ==
    { b \in Positionals(inp) :
        \E a \in Positionals(inp) :
            /\ NextPositional(inp, a, b)
            /\ PairTooFar(inp, a, b) \/ PairGateCoincides(inp, a, b) }

C23_LandStartNeedsAcceptedLand ==
    (HasRun("checkFixedWingLanding") /\ RanOf("checkFixedWingLanding").ok)
    => \A d \in LandStarts(in) :
          \E l \in Lands(in) : l > d /\ LandAccepted(in, l)

\* land start, an approach waypoint and an accepted LAND item: the check
\* passes
C23_Witness ==
    /\ HasRun("checkFixedWingLanding")
    /\ RanOf("checkFixedWingLanding").ok
    /\ LandStarts(in) = {1}
    /\ Lands(in) = {3}
    /\ LandAccepted(in, 3)

\* C24: for a VTOL vehicle, a mission with a DO_LAND_START item passes
\* checkVTOLLanding only if a LAND or VTOL_LAND item follows that
\* DO_LAND_START, wherever the DO_LAND_START is, the first place included.
C24_LandStartNeedsLandingAfter ==
    (HasRun("checkVTOLLanding") /\ RanOf("checkVTOLLanding").ok)
    => \A d \in LandStarts(in) :
          \E l \in DOMAIN in.mission :
              l > d /\ in.mission[l].nav_cmd \in {"LAND", "VTOL_LAND"}

ApproachEvents(inp, k) ==
    IF inp.mission[k - 1].nav_cmd \notin PositionalCmds
    THEN <<Ev("navigator_mis_req_landing_approach", <<>>)>>
    ELSE <<Ev("navigator_mis_unsupported_landing_approach_wp", <<>>)>>

\* the LAND item at place k > 1 has an entrance that is no position, or a
\* position other than WAYPOINT and LOITER_TO_ALT that lies above it
BadEntrance(inp, k) ==
    /\ k > 1
    /\ inp.mission[k - 1].nav_cmd \notin {"WAYPOINT", "LOITER_TO_ALT"}
    /\ inp.mission[k - 1].nav_cmd \in PositionalCmds
          => Amsl(inp, k - 1) > Amsl(inp, k)

\* C25 as stated: checkFixedWingLanding returns true only if every LAND item
\* is behind a WAYPOINT or LOITER_TO_ALT item; a LAND item the walk reaches
\* behind an item without position gives ApproachRequired, behind any other
\* position above it UnsupportedApproach.
C25_Original ==
    HasRun("checkFixedWingLanding")
    => LET r == RanOf("checkFixedWingLanding")
       IN  /\ r.ok => \A k \in Lands(in) :
                         /\ k > 1
                         /\ in.mission[k - 1].nav_cmd
                                \in {"WAYPOINT", "LOITER_TO_ALT"}
           /\ \A k \in Lands(in) :
                 (in.dm_fail = {} /\ ScanReaches(in, k) /\ BadEntrance(in, k))
                 => ~r.ok /\ r.ev = ApproachEvents(in, k)

\* C25, amended: the two events are those of a LAND item the walk reaches
\* when the parameter FW_LND_ANG exists.
C25_EntranceIsWaypointOrLoiter ==
    HasRun("checkFixedWingLanding")
    => LET r == RanOf("checkFixedWingLanding")
       IN  /\ r.ok => \A k \in Lands(in) :
                         /\ k > 1
                         /\ in.mission[k - 1].nav_cmd
                                \in {"WAYPOINT", "LOITER_TO_ALT"}
           /\ \A k \in Lands(in) :
                 ( /\ in.dm_fail = {} /\ in.fw_lnd_ang.found
                   /\ ScanReaches(in, k) /\ BadEntrance(in, k) )
                 => ~r.ok /\ r.ev = ApproachEvents(in, k)

\* a LAND item behind a takeoff item 10 m above it
C25_Witness ==
    /\ HasRun("checkFixedWingLanding")
    /\ in.dm_fail = {} /\ in.fw_lnd_ang.found
    /\ Lands(in) = {2}
    /\ IsTakeoff(in.mission[1])
    /\ Amsl(in, 1) > Amsl(in, 2)
    /\ RanOf("checkFixedWingLanding").ev =
           <<Ev("navigator_mis_unsupported_landing_approach_wp", <<>>)>>

\* C26: in checkTakeoff, a mission whose first item is a takeoff item that
\* satisfies the altitude rule never fails with TakeoffNotFirst, whatever
\* follows it, further takeoff items included.
C26_TakeoffFirstNeverNotFirst ==
    ( /\ HasRun("checkTakeoff")
      /\ IsTakeoff(in.mission[1])
      /\ TakeoffAltitudeOk(in, in.mission[1]) )
    => \A e \in DOMAIN RanOf("checkTakeoff").ev :
          RanOf("checkTakeoff").ev[e].id # "navigator_mis_takeoff_not_first"

\* C27: a landing sequencer sends LandBeforeRTL only for a mission with a
\* DO_LAND_START item in front of a RETURN_TO_LAUNCH item.
C27_LandBeforeRTLNeedsLandStart ==
    (Sequenced(in.vstatus) /\ HasRun(LandingCheckOf(in.vstatus)))
    => LET r == RanOf(LandingCheckOf(in.vstatus))
       IN  (\E e \in DOMAIN r.ev : r.ev[e].id = LandBeforeRTL(in.vstatus))
           => \E i \in DOMAIN in.mission :
                 /\ in.mission[i].nav_cmd = "RETURN_TO_LAUNCH"
                 /\ \E d \in LandStarts(in) : d < i

\* C28: when checkMissionFeasible returns true, the warning flag is true
\* iff a WaypointBelowHome event was sent.
C28_WarningOfFeasibleIsBelowHome ==
    (Returned /\ ret = TRUE)
    => (warning = Sent("navigator_mis_wp_below_home"))

\* a feasible mission with a waypoint below home
C28_Witness ==
    /\ Returned /\ ret = TRUE
    /\ warning
    /\ Sent("navigator_mis_wp_below_home")
    /\ BelowHome(in) # {}

C30_HasTakeoffIffTakeoffItem ==
    (Returned /\ Count(in) > 0 /\ in.dm_fail = {})
    => /\ has_takeoff = (\E k \in DOMAIN in.mission : IsTakeoff(in.mission[k]))
       /\ Sent("navigator_mis_takeoff_too_low")
             => /\ ~Sent("navigator_mis_takeoff_missing")
                /\ ~Sent("navigator_mis_takeoff_or_land_missing")
                /\ ~Sent("navigator_mis_add_to_or_rm_land")

====
